---- MODULE Spec2Model ----
(***************************************************************************)
(* A model of the QuantSynth path-synthesis engine (generateSynthesizedData *)
(* and the pricers of mathUtils.ts) and of the application glue that calls *)
(* it (the scenario assistant and the App's generation requests).          *)
(*                                                                         *)
(* Numbers.  The program computes in IEEE doubles.  The model computes in  *)
(* fixed point: an integer n stands for the number n / SCALE, so that one  *)
(* unit is 0.0001, the smallest constant of the code (the floor of the     *)
(* time-to-expiry and of the CIR level).  Products and quotients are       *)
(* truncated towards zero; exp, ln, cos and sqrt are computed by series    *)
(* on these integers.  A double that is NaN or infinite is the value NaN   *)
(* of the model.                                                           *)
(***************************************************************************)
EXTENDS Integers, Sequences, FiniteSets, TLC

\* one unit of the model is 1 / SCALE = 0.0001
SCALE == 10000

Abs(x) == IF x < 0 THEN -x ELSE x
Max(a, b) == IF a >= b THEN a ELSE b
Min(a, b) == IF a <= b THEN a ELSE b

\* An operator below that uses an argument more than once binds it first,
\* CHOOSE r \in { e(x) : x \in {a} } : TRUE, which is e(a) with a evaluated
\* once.

\* a * b on doubles: the product, truncated towards zero; the factors are
\* split in integer and fractional part so that no intermediate overflows
FMul(a, b) ==
  CHOOSE r \in
    { (LET xh == Abs(x) \div SCALE
           xl == Abs(x) % SCALE
           yh == Abs(y) \div SCALE
           yl == Abs(y) % SCALE
           m == xh * yh * SCALE + xh * yl + xl * yh + (xl * yl) \div SCALE
       IN IF (x < 0) = (y < 0) THEN m ELSE -m) : x \in {a}, y \in {b} } : TRUE

\* a / b on doubles, b # 0: long division, two decimal digits at a time
FDiv(a, b) ==
  CHOOSE r \in
    { (LET q0 == Abs(x) \div Abs(y)
           r0 == Abs(x) % Abs(y)
           q1 == (r0 * 100) \div Abs(y)
           r1 == (r0 * 100) % Abs(y)
           q2 == (r1 * 100) \div Abs(y)
           m == q0 * SCALE + q1 * 100 + q2
       IN IF (x < 0) = (y < 0) THEN m ELSE -m) : x \in {a}, y \in {b} } : TRUE

\* the integer square root of n >= 0, by bisection on [lo, hi)
RECURSIVE ISqrtIn(_, _, _)
ISqrtIn(n, lo, hi) ==
  CHOOSE r \in
    { IF y - x <= 1 THEN x
      ELSE IF ((x + y) \div 2) * ((x + y) \div 2) <= z
           THEN ISqrtIn(z, (x + y) \div 2, y)
           ELSE ISqrtIn(z, x, (x + y) \div 2) : x \in {lo}, y \in {hi}, z \in {n} } : TRUE

ISqrt(n) == ISqrtIn(n, 0, 46341)

\* Math.sqrt(x), x >= 0
FSqrt(x) ==
  CHOOSE r \in
    { IF y <= 200000 THEN ISqrt(y * SCALE)
      ELSE IF y <= 20000000 THEN ISqrt(y * 100) * 10
      ELSE ISqrt(y) * 100 : y \in {x} } : TRUE

\* the series of exp at x, x2 = x * x
ExpSeries(x, x2) == SCALE + x + x2 \div 2 + FMul(x2, x) \div 6 + FMul(x2, x2) \div 24

\* exp(x) from e = exp(x / 2), the halving truncated towards zero
ExpSquare(x, e) ==
  IF x % 2 = 0 THEN FMul(e, e)
  ELSE IF x < 0 THEN FMul(FMul(e, e), SCALE - 1) ELSE FMul(FMul(e, e), SCALE + 1)

\* Math.exp(x): halve the argument until it is at most 1/4, sum the series
\* there and square back; below exp(-10) < 1/SCALE the result is 0
RECURSIVE FExp(_)
FExp(x) ==
  CHOOSE r \in
    { IF y < -10 * SCALE THEN 0
      ELSE IF Abs(y) <= SCALE \div 4
      THEN CHOOSE t \in { ExpSeries(y, y2) : y2 \in {FMul(y, y)} } : TRUE
      ELSE CHOOSE t \in { ExpSquare(y, e) :
                            e \in {FExp(IF y < 0 THEN -((-y) \div 2) ELSE y \div 2)} } : TRUE
      : y \in {x} } : TRUE

\* ln 2
LN2 == 6931

\* 2 atanh(z) by its series, z2 = z * z
LnSeries(z, z2) ==
  2 * (z + FMul(z2, z) \div 3 + FMul(FMul(z2, z2), z) \div 5
         + FMul(FMul(FMul(z2, z2), z2), z) \div 7)

LnUnit(z) == CHOOSE r \in { LnSeries(y, FMul(y, y)) : y \in {z} } : TRUE

\* Math.log(x), x > 0: scale x into [1, 2) by powers of two, then
\* ln m = 2 atanh((m - 1) / (m + 1))
RECURSIVE FLn(_)
FLn(x) ==
  CHOOSE r \in
    { IF y >= 2 * SCALE THEN LN2 + FLn(y \div 2)
      ELSE IF y < SCALE THEN FLn(2 * y) - LN2
      ELSE LnUnit(FDiv(y - SCALE, y + SCALE)) : y \in {x} } : TRUE

\* Math.PI
PI == 31416

\* cos by its series at x2 = x * x, x in [0, PI/2]
CosSeries(x2) ==
  CHOOSE r \in
    { SCALE - y \div 2 + FMul(y, y) \div 24 - FMul(FMul(y, y), y) \div 720
      + FMul(FMul(y, y), FMul(y, y)) \div 40320 : y \in {x2} } : TRUE

CosReduced(y) ==
  IF y > PI \div 2 THEN -CosSeries(FMul(PI - y, PI - y)) ELSE CosSeries(FMul(y, y))

\* Math.cos(x) for 0 <= x <= 2 PI
FCos(x) ==
  CHOOSE r \in { CosReduced(IF y > PI THEN 2 * PI - y ELSE y) : y \in {x} } : TRUE

\* a double that is NaN or infinite: a value apart from every number used
NaN == 0 - 1000000000

IsNum(x) == x # NaN

\* 1 / sqrt(2 PI)
INV_SQRT_2PI == 3989

(***************************************************************************)
(* mathUtils.ts                                                            *)
(***************************************************************************)

\* normalPDF: (1 / sqrt(2 PI)) exp(-x^2 / 2), which is below one unit
\* beyond |x| = 10
normalPDF(x) ==
  CHOOSE r \in
    { IF Abs(y) > 10 * SCALE THEN 0
      ELSE FMul(INV_SQRT_2PI, FExp(-(FMul(y, y) \div 2))) : y \in {x} } : TRUE

\* a1 K + a2 K^2 + a3 K^3 + a4 K^4 + a5 K^5
CNDPoly(K) ==
  CHOOSE r \in
    { FMul(3194, y) - FMul(3566, FMul(y, y)) + FMul(17815, FMul(FMul(y, y), y))
      - FMul(18213, FMul(FMul(y, y), FMul(y, y)))
      + FMul(13303, FMul(FMul(FMul(y, y), FMul(y, y)), y)) : y \in {K} } : TRUE

\* w of CND at L = |x|
CNDTail(L) ==
  SCALE - FMul(normalPDF(L), CNDPoly(FDiv(SCALE, SCALE + FMul(2316, L))))

\* CND: the polynomial approximation of the standard normal distribution
CND(x) ==
  CHOOSE r \in
    { IF y < 0 THEN SCALE - CNDTail(Abs(y)) ELSE CNDTail(Abs(y)) : y \in {x} } : TRUE

Greeks(d, g, v, t, r) == [delta |-> d, gamma |-> g, vega |-> v, theta |-> t, rho |-> r]

\* the branch T <= 0 with the moneyness of delta tested by >= and <=
IntrinsicSlip(S, K, isCall) ==
  [price |-> Max(0, IF isCall THEN S - K ELSE K - S),
   greeks |-> [delta |-> IF isCall THEN (IF S >= K THEN SCALE ELSE 0)
                         ELSE (IF S <= K THEN -SCALE ELSE 0),
               gamma |-> 0, vega |-> 0, theta |-> 0, rho |-> 0]]

\* the branch T <= 0 of calculateBS and of calculateBlackSwaption
Intrinsic(S, K, isCall) ==
  [price |-> Max(0, IF isCall THEN S - K ELSE K - S),
   greeks |-> Greeks(IF isCall THEN (IF S > K THEN SCALE ELSE 0)
                               ELSE (IF S < K THEN -SCALE ELSE 0), 0, 0, 0, 0)]

\* whether d1 is a number ("num") or the division by sd = sigma sqrt(T) or
\* the logarithm of S / K leaves the numbers ("pinf", "ninf", "nan"); num is
\* the numerator of d1 where ln(S / K) is a number
D1Class(S, K, sigma, sd, num) ==
  IF K = 0
  THEN (IF S > 0 THEN (IF sigma < 0 THEN "ninf" ELSE "pinf") ELSE "nan")
  ELSE IF (S < 0) # (K < 0) /\ S # 0 THEN "nan"
  ELSE IF S = 0 THEN (IF sigma < 0 THEN "pinf" ELSE "ninf")
  ELSE IF sd # 0 THEN "num"
  ELSE IF num = 0 THEN "nan"
  ELSE IF (num > 0) = (sigma >= 0) THEN "pinf"
  ELSE "ninf"

\* a / b where b may be 0
FQuot(a, b) == IF b = 0 THEN NaN ELSE FDiv(a, b)

\* Math.log(S / K) where S / K is a positive number
LnRatio(S, K) == IF K # 0 /\ S # 0 /\ (S < 0) = (K < 0) THEN FLn(FDiv(S, K)) ELSE 0

AllNaN == [price |-> NaN, greeks |-> Greeks(NaN, NaN, NaN, NaN, NaN)]

\* price and greeks of calculateBS from N(d1), N(d2), N(-d1), N(-d2), the
\* density pdf at d1 and disc = K exp(-r T)
BSValues(S, T, r, sigma, isCall, sqT, disc, Nd1, Nd2, Nmd1, Nmd2, pdf) ==
  [price |-> IF isCall THEN FMul(S, Nd1) - FMul(disc, Nd2)
             ELSE FMul(disc, Nmd2) - FMul(S, Nmd1),
   greeks |-> Greeks(
     IF isCall THEN Nd1 ELSE Nd1 - SCALE,
     IF pdf = 0 /\ (S = 0 \/ sigma = 0) THEN NaN
     ELSE FQuot(pdf, FMul(FMul(S, sigma), sqT)),
     FMul(FMul(S, pdf), sqT),
     IF isCall THEN -(FDiv(FMul(FMul(S, pdf), sigma), 2 * sqT)) - FMul(FMul(r, disc), Nd2)
     ELSE -(FDiv(FMul(FMul(S, pdf), sigma), 2 * sqT)) + FMul(FMul(r, disc), Nmd2),
     IF isCall THEN FMul(FMul(disc, T), Nd2) ELSE -FMul(FMul(disc, T), Nmd2))]

\* calculateBS at a d1 that is a number
BSAt(S, T, r, sigma, isCall, sqT, disc, d1, d2) ==
  CHOOSE x \in
    { BSValues(S, T, r, sigma, isCall, sqT, disc, Nd1, Nd2, Nmd1, Nmd2, pdf) :
        Nd1 \in {CND(d1)}, Nd2 \in {CND(d2)}, Nmd1 \in {CND(-d1)}, Nmd2 \in {CND(-d2)},
        pdf \in {normalPDF(d1)} } : TRUE

\* calculateBS at d1 = d2 = +Infinity or -Infinity: CND is 1 or 0 and
\* normalPDF is 0
BSLimit(S, T, r, sigma, isCall, sqT, disc, c) ==
  BSValues(S, T, r, sigma, isCall, sqT, disc, c, c, SCALE - c, SCALE - c, 0)

\* calculateBS from sqT = sqrt(T), disc = K exp(-r T) and the numerator num
\* of d1, of class cls
BSClassed(S, T, r, sigma, isCall, sqT, disc, cls, num) ==
  IF cls = "nan" THEN AllNaN
  ELSE IF cls = "num"
  THEN CHOOSE x \in
         { BSAt(S, T, r, sigma, isCall, sqT, disc, d1, d1 - FMul(sigma, sqT)) :
             d1 \in {FDiv(num, FMul(sigma, sqT))} } : TRUE
  ELSE BSLimit(S, T, r, sigma, isCall, sqT, disc, IF cls = "pinf" THEN SCALE ELSE 0)

calculateBS(S, K, T, r, sigma, isCall) ==
  IF T <= 0 THEN Intrinsic(S, K, isCall)
  ELSE CHOOSE x \in
         { BSClassed(S, T, r, sigma, isCall, sqT, disc,
                     D1Class(S, K, sigma, FMul(sigma, sqT), num), num) :
             sqT \in {FSqrt(T)},
             disc \in {FMul(K, FExp(-FMul(r, T)))},
             num \in {LnRatio(S, K) + FMul(r + FMul(sigma, sigma) \div 2, T)} } : TRUE

\* (1 - exp(-5 r)) / r, which is 0 / 0 at r = 0
Annuity(r) == IF r = 0 THEN NaN ELSE FDiv(SCALE - FExp(-5 * r), r)

\* annuity * x
TimesAnnuity(annuity, x) == IF annuity = NaN THEN NaN ELSE FMul(annuity, x)

\* -T * price
Duration(T, price) == IF price = NaN THEN NaN ELSE -FMul(T, price)

\* price and greeks of calculateBlackSwaption from its price and the
\* density pdf at d1; disc = exp(-r T)
BlackValues(F, T, sigma, isPayer, sqT, annuity, disc, Nd1, Nmd1, pdf, price) ==
  [price |-> price,
   greeks |-> Greeks(
     IF isPayer THEN FMul(disc, Nd1) ELSE -FMul(disc, Nmd1),
     IF pdf = 0 /\ (F = 0 \/ sigma = 0) THEN NaN
     ELSE FQuot(FMul(disc, pdf), FMul(FMul(F, sigma), sqT)),
     TimesAnnuity(annuity, FMul(FMul(FMul(disc, F), pdf), sqT)),
     IF annuity = NaN THEN NaN
     ELSE -(FDiv(FMul(FMul(FMul(FMul(annuity, disc), F), pdf), sigma), 2 * sqT)),
     Duration(T, price))]

\* calculateBlackSwaption from N(d1), N(d2), N(-d1), N(-d2) and the density
BlackPriced(F, K, T, sigma, isPayer, sqT, annuity, disc, Nd1, Nd2, Nmd1, Nmd2, pdf) ==
  CHOOSE x \in
    { BlackValues(F, T, sigma, isPayer, sqT, annuity, disc, Nd1, Nmd1, pdf, price) :
        price \in {TimesAnnuity(annuity,
                     FMul(disc, IF isPayer THEN FMul(F, Nd1) - FMul(K, Nd2)
                                ELSE FMul(K, Nmd2) - FMul(F, Nmd1)))} } : TRUE

\* calculateBlackSwaption at a d1 that is a number
BlackAt(F, K, T, sigma, isPayer, sqT, annuity, disc, d1, d2) ==
  CHOOSE x \in
    { BlackPriced(F, K, T, sigma, isPayer, sqT, annuity, disc, Nd1, Nd2, Nmd1, Nmd2, pdf) :
        Nd1 \in {CND(d1)}, Nd2 \in {CND(d2)}, Nmd1 \in {CND(-d1)}, Nmd2 \in {CND(-d2)},
        pdf \in {normalPDF(d1)} } : TRUE

\* calculateBlackSwaption from sqT = sqrt(T), the annuity, disc = exp(-r T)
\* and the numerator num of d1, of class cls
BlackClassed(F, K, T, sigma, isPayer, sqT, annuity, disc, cls, num) ==
  IF cls = "nan" THEN AllNaN
  ELSE IF cls = "num"
  THEN CHOOSE x \in
         { BlackAt(F, K, T, sigma, isPayer, sqT, annuity, disc, d1,
                   d1 - FMul(sigma, sqT)) :
             d1 \in {FDiv(num, FMul(sigma, sqT))} } : TRUE
  ELSE IF cls = "pinf"
  THEN BlackPriced(F, K, T, sigma, isPayer, sqT, annuity, disc, SCALE, SCALE, 0, 0, 0)
  ELSE BlackPriced(F, K, T, sigma, isPayer, sqT, annuity, disc, 0, 0, SCALE, SCALE, 0)

calculateBlackSwaption(F, K, T, r, sigma, isPayer) ==
  IF T <= 0 THEN Intrinsic(F, K, isPayer)
  ELSE CHOOSE x \in
         { BlackClassed(F, K, T, sigma, isPayer, sqT, annuity, disc,
                        D1Class(F, K, sigma, FMul(sigma, sqT), num), num) :
             sqT \in {FSqrt(T)},
             annuity \in {Annuity(r)},
             disc \in {FExp(-FMul(r, T))},
             num \in {LnRatio(F, K) + FMul(FMul(sigma, sigma) \div 2, T)} } : TRUE

\* the value getStandardNormal returns for the uniforms u, v in (0, 1):
\* sqrt(-2 ln u) cos(2 PI v)
BoxMuller(u, v) == FMul(FSqrt(-2 * FLn(u)), FCos(FMul(2 * PI, v)))

\* the sum, the least and the greatest of f[lo], ..., f[hi]
RECURSIVE SumRange(_, _, _)
SumRange(f, lo, hi) ==
  IF lo = hi THEN f[lo]
  ELSE SumRange(f, lo, (lo + hi) \div 2) + SumRange(f, (lo + hi) \div 2 + 1, hi)

RECURSIVE MinRange(_, _, _)
MinRange(f, lo, hi) ==
  IF lo = hi THEN f[lo]
  ELSE Min(MinRange(f, lo, (lo + hi) \div 2), MinRange(f, (lo + hi) \div 2 + 1, hi))

RECURSIVE MaxRange(_, _, _)
MaxRange(f, lo, hi) ==
  IF lo = hi THEN f[lo]
  ELSE Max(MaxRange(f, lo, (lo + hi) \div 2), MaxRange(f, (lo + hi) \div 2 + 1, hi))

\* the sum of the squares sq divided by their number n, the quotients and
\* the remainders summed apart so that no intermediate overflows
MeanSquare(sq, n) ==
  SumRange([k \in 1..n |-> sq[k] \div n], 1, n)
  + SumRange([k \in 1..n |-> sq[k] % n], 1, n) \div n

\* the summary of the values s of mean avg
SummaryAt(s, avg) ==
  [max |-> MaxRange(s, 1, Len(s)), min |-> MinRange(s, 1, Len(s)), avg |-> avg,
   vol |-> FSqrt(MeanSquare([k \in 1..Len(s) |-> FMul(s[k] - avg, s[k] - avg)], Len(s)))]

\* sum / n, truncated towards zero
Mean(sum, n) == IF sum < 0 THEN -((-sum) \div n) ELSE sum \div n

\* calculateSummary.  Of no value the sum is 0 and the mean 0 / 0; Math.min
\* and Math.max of nothing are infinite; a NaN among the values makes all
\* four NaN.
calculateSummary(values) ==
  CHOOSE x \in
    { IF s = <<>> \/ \E k \in 1..Len(s) : s[k] = NaN
      THEN [max |-> NaN, min |-> NaN, avg |-> NaN, vol |-> NaN]
      ELSE CHOOSE y \in { SummaryAt(s, avg) :
                            avg \in {Mean(SumRange(s, 1, Len(s)), Len(s))} } : TRUE
      : s \in {values} } : TRUE

(***************************************************************************)
(* The state.  The locals of one call of generateSynthesizedData, the      *)
(* environment it reads (the clock, the uniform source) and the locals of  *)
(* the call of getStandardNormal in progress.                              *)
(***************************************************************************)
VARIABLES
  clock,                \* the wall clock and time zone at new Date()
  uniforms,             \* the values Math.random() may return
  pc,                   \* the position in generateSynthesizedData
  p,                    \* params
  pricingVol,           \* const pricingVol
  effectiveMu,          \* effectiveMu after the asset-class branches
  rho,                  \* const rho
  startDate,            \* const startDate: [day, hour], local time
  i,                    \* the loop counter
  currentSpot,
  spotLog,              \* ln currentSpot under EQUITY_GBM, NaN once the double is 0
  marketProxy,
  data,                 \* const data: DataPoint[]
  marketEpsilon,
  idiosyncraticEpsilon,
  assetEpsilon,
  jumpEpsilon,
  u,                    \* getStandardNormal: let u
  v,                    \* getStandardNormal: let v
  drawFor,              \* the call site getStandardNormal returns to
  pricerArgs,           \* the arguments of the pricer call of this iteration
  result,               \* what generateSynthesizedData returned
  past,                 \* App: the undo history
  params,               \* App: the current parameters
  future,               \* App: the redo history
  appResult,            \* App: the result state, <<>> for null
  insights,             \* App: the insights state, <<>> for null
  isGenerating,         \* App: the isGenerating state
  timers,               \* the targetParams of the pending setTimeout callbacks
  insightCalls,         \* the resultJson of the pending calls of getAnalysisInsights
  loading,              \* AIAssistant: the loading state
  error,                \* AIAssistant: the error state, <<>> for null
  preview,              \* AIAssistant: the preview state, <<>> for null
  scenarioCall,         \* whether a call of getEconomicScenario is pending
  inputs                \* the calls of handlers the user still makes, in order

appVars == <<past, params, future, appResult, insights, isGenerating, timers,
             insightCalls, loading, error, preview, scenarioCall, inputs>>

engineVars == <<pc, p, pricingVol, effectiveMu, rho, startDate, i, currentSpot, spotLog,
                marketProxy, data, marketEpsilon, idiosyncraticEpsilon,
                assetEpsilon, jumpEpsilon, u, v, drawFor, pricerArgs, result>>

vars == <<clock, uniforms, engineVars, appVars>>

\* a field of a parameter object, or the default of the destructuring when
\* the field is undefined
Field(q, f, d) == IF f \in DOMAIN q THEN q[f] ELSE d

\* x || d on numbers: d when x is 0 or NaN
OrElse(x, d) == IF x = 0 \/ x = NaN THEN d ELSE x

mu(q) == Field(q, "mu", 500)
sigma(q) == Field(q, "sigma", 2000)
kappa(q) == Field(q, "kappa", 20000)
theta(q) == Field(q, "theta", 500)
lambda(q) == Field(q, "lambda", 0)
jumpMu(q) == Field(q, "jumpMu", 0)
jumpSigma(q) == Field(q, "jumpSigma", 0)
dividendYield(q) == Field(q, "dividendYield", 0)
expectedEarnings(q) == Field(q, "expectedEarnings", 50000)
foreignRate(q) == Field(q, "foreignRate", 0)
domesticRate(q) == Field(q, "domesticRate", 0)
convenienceYield(q) == Field(q, "convenienceYield", 0)
storageCost(q) == Field(q, "storageCost", 0)
seasonalAmplitude(q) == Field(q, "seasonalAmplitude", 0)
creditSpread(q) == Field(q, "creditSpread", 100)
cdsSpread(q) == Field(q, "cdsSpread", 0)
strikePrice(q) == Field(q, "strikePrice", 1000000)
riskFreeRate(q) == Field(q, "riskFreeRate", 300)
expiryTime(q) == Field(q, "expiryTime", 10000)
isCall(q) == Field(q, "isCall", TRUE)
impliedVol(q) == Field(q, "impliedVol", 2000)
correlations(q) == Field(q, "correlations", <<>>)

\* const pricingVol = impliedVol || sigma
PricingVol(q) == OrElse(impliedVol(q), sigma(q))

\* the effective drift with the two rates of an FX pair added
EffectiveMuSlip(q) ==
  IF q.assetClass = "EQUITY" THEN mu(q) - dividendYield(q)
  ELSE IF q.assetClass = "FX" THEN mu(q) + (domesticRate(q) + foreignRate(q))
  ELSE IF q.assetClass = "COMMODITY" THEN mu(q) + (storageCost(q) - convenienceYield(q))
  ELSE IF q.assetClass \in {"FORWARD", "FUTURE"} THEN riskFreeRate(q) - dividendYield(q)
  ELSE IF q.assetClass = "UNEMPLOYMENT_RATE" THEN 0
  ELSE mu(q)

\* the effective drift with the branch of FORWARD and FUTURE keeping mu
EffectiveMuKept(q) ==
  IF q.assetClass = "EQUITY" THEN mu(q) - dividendYield(q)
  ELSE IF q.assetClass = "FX" THEN mu(q) + (domesticRate(q) - foreignRate(q))
  ELSE IF q.assetClass = "COMMODITY" THEN mu(q) + (storageCost(q) - convenienceYield(q))
  ELSE IF q.assetClass \in {"FORWARD", "FUTURE"} THEN mu(q) + riskFreeRate(q) - dividendYield(q)
  ELSE IF q.assetClass = "UNEMPLOYMENT_RATE" THEN 0
  ELSE mu(q)

\* the effective drift by asset class
EffectiveMu(q) ==
  IF q.assetClass = "EQUITY" THEN mu(q) - dividendYield(q)
  ELSE IF q.assetClass = "FX" THEN mu(q) + (domesticRate(q) - foreignRate(q))
  ELSE IF q.assetClass = "COMMODITY" THEN mu(q) + (storageCost(q) - convenienceYield(q))
  ELSE IF q.assetClass \in {"FORWARD", "FUTURE"} THEN riskFreeRate(q) - dividendYield(q)
  ELSE IF q.assetClass = "UNEMPLOYMENT_RATE" THEN 0
  ELSE mu(q)

\* factorKeys.reduce((acc, k) => acc + (correlations[k] || 0), 0)
RECURSIVE SumFactors(_, _)
SumFactors(c, keys) ==
  IF keys = {} THEN 0
  ELSE LET k == CHOOSE x \in keys : TRUE
       IN OrElse(c[k], 0) + SumFactors(c, keys \ {k})

\* the aggregated correlation factor without the clamp
RhoUnclamped(q) ==
  LET c == correlations(q)
  IN IF DOMAIN c # {} THEN SumFactors(c, DOMAIN c) ELSE 0

\* the aggregated correlation factor
Rho(q) ==
  LET c == correlations(q)
  IN IF DOMAIN c # {} THEN Max(-SCALE, Min(SCALE, SumFactors(c, DOMAIN c))) ELSE 0

\* Math.sin(x) for x >= 0
FSin(x) ==
  LET y == x % (2 * PI)
  IN IF y < PI \div 2 THEN FCos(PI \div 2 - y) ELSE FCos(y - PI \div 2)

\* the offset of local time from UTC, in hours, on a local day: the zone
\* changes its offset at the start of clock.switchDay
ZoneOffset(day) == IF day < clock.switchDay THEN clock.before ELSE clock.after

\* currentDate.toISOString().split('T')[0]: the UTC calendar day, as a day
\* number, of the instant that the local day and hour name
IsoDate(day, hour) == (day * 24 + hour - ZoneOffset(day)) \div 24

\* new Date(startDate) with setDate(startDate.getDate() + k): k local
\* calendar days later, at the same local time
Timestamp(k) == IsoDate(startDate.day + k, startDate.hour)

\* the time to expiry without its floor
TimeToExpiryUnfloored(q, k) == expiryTime(q) - (k * SCALE) \div 365

\* T = Math.max(0.0001, expiryTime - i / 365)
TimeToExpiry(q, k) == Max(1, expiryTime(q) - (k * SCALE) \div 365)

\* the seasonal factor of iteration k
SeasonalShift(q, k) ==
  IF q.assetClass \in {"COMMODITY", "INFLATION_RATE", "GDP_GROWTH"}
     /\ seasonalAmplitude(q) > 0
  THEN FMul(FSin((2 * PI * k) \div 252), seasonalAmplitude(q))
  ELSE 0

\* strikePrice / 1000 || 0.03
StrikeRate(q) == OrElse(IF strikePrice(q) = NaN THEN NaN
                        ELSE FDiv(strikePrice(q), 1000 * SCALE), 300)

\* the pricer call of an iteration at spot S: <<>> outside OPTION and SWAPTION
PricerCall(q, S, k) ==
  IF q.assetClass = "OPTION"
  THEN <<[fn |-> "calculateBS", S |-> S, K |-> strikePrice(q),
          T |-> TimeToExpiry(q, k), r |-> riskFreeRate(q),
          sigma |-> PricingVol(q), isCall |-> isCall(q)]>>
  ELSE IF q.assetClass = "SWAPTION"
  THEN <<[fn |-> "calculateBlackSwaption", S |-> S, K |-> StrikeRate(q),
          T |-> TimeToExpiry(q, k), r |-> riskFreeRate(q),
          sigma |-> PricingVol(q), isCall |-> isCall(q)]>>
  ELSE <<>>

Priced(c) ==
  IF c.fn = "calculateBS" THEN calculateBS(c.S, c.K, c.T, c.r, c.sigma, c.isCall)
  ELSE calculateBlackSwaption(c.S, c.K, c.T, c.r, c.sigma, c.isCall)

\* the domain specific logic: the displayed value and the optional fields
\* of the point of iteration k at spot S
Display(q, S, k) ==
  LET shift == SeasonalShift(q, k)
      T == TimeToExpiry(q, k)
      ac == q.assetClass
  IN IF ac = "FIXED_INCOME"
     THEN [value |-> riskFreeRate(q) + creditSpread(q) + cdsSpread(q) + S,
           secondaryValue |-> cdsSpread(q)]
     ELSE IF ac \in {"OPTION", "SWAPTION"}
     THEN LET priced == Priced(PricerCall(q, S, k)[1])
          IN [value |-> priced.price, greeks |-> priced.greeks,
              secondaryValue |-> strikePrice(q)]
     ELSE IF ac \in {"FORWARD", "FUTURE"}
     THEN [value |-> FMul(S, FExp(FMul(riskFreeRate(q) - dividendYield(q), T))),
           secondaryValue |-> S]
     ELSE IF ac = "SWAP"
     THEN [value |-> (S - StrikeRate(q)) * 10000, secondaryValue |-> strikePrice(q)]
     ELSE IF ac = "UNEMPLOYMENT_RATE"
     THEN [value |-> Max(20000, S + shift)]
     ELSE IF ac = "INFLATION_RATE"
     THEN [value |-> S + shift]
     ELSE IF ac = "EQUITY"
     THEN LET earnings == FMul(expectedEarnings(q), FExp((300 * k) \div 252))
          IN [value |-> S + shift,
              expectedEarnings |-> earnings,
              peRatio |-> IF earnings = 0 THEN NaN ELSE FDiv(S + shift, earnings)]
     ELSE [value |-> S + shift]

\* the DataPoint with the index counted from 1
PointFromOne(q, S, proxy, k) ==
  [index |-> k + 1, timestamp |-> Timestamp(k), underlyingValue |-> S,
   benchmarkValue |-> proxy] @@ Display(q, S, k)

\* the DataPoint with greeks for every asset class
PointWithGreeks(q, S, proxy, k) ==
  Display(q, S, k) @@
  [index |-> k, timestamp |-> Timestamp(k), underlyingValue |-> S,
   benchmarkValue |-> proxy, greeks |-> Greeks(0, 0, 0, 0, 0)]

\* the DataPoint pushed in iteration k
Point(q, S, proxy, k) ==
  [index |-> k, timestamp |-> Timestamp(k), underlyingValue |-> S,
   benchmarkValue |-> proxy] @@ Display(q, S, k)

\* the coupling with rho in the place of rho^2
CoupleSlip(r, zm, zi) == FMul(r, zm) + FMul(FSqrt(SCALE - r), zi)

\* the correlation coupling: rho Zm + sqrt(1 - rho^2) Zi
Couple(r, zm, zi) == FMul(r, zm) + FMul(FSqrt(SCALE - FMul(r, r)), zi)

\* the market proxy stepped at the volatility of the parameters
ProxyStepAtSigma(proxy, dt, zm) ==
  FMul(proxy, FExp(FMul(600 - FMul(sigma(p), sigma(p)) \div 2, dt)
                   + FMul(FMul(sigma(p), FSqrt(dt)), zm)))

\* the market proxy after one step of its geometric Brownian motion,
\* marketMu = 0.06 and marketSigma = 0.15
ProxyStep(proxy, dt, zm) ==
  FMul(proxy, FExp(FMul(600 - FMul(1500, 1500) \div 2, dt) + FMul(FMul(1500, FSqrt(dt)), zm)))

\* (effectiveMu - 0.5 sigma^2) dt + sigma sqrt(dt) assetEpsilon
LogReturn(q, m, za) ==
  FMul(m - FMul(sigma(q), sigma(q)) \div 2, q.dt) + FMul(FMul(sigma(q), FSqrt(q.dt)), za)

\* the switch on modelType with the pricing volatility in the place of sigma
EvolveAtPricingVol(q, m, S, za, jf) ==
  LET mt == q.modelType
      noise == FMul(FMul(PricingVol(q), FSqrt(q.dt)), za)
  IN IF mt = "EQUITY_GBM" THEN FMul(S, FExp(LogReturn(q, m, za)))
     ELSE IF mt = "EQUITY_MERTON_JUMP"
     THEN FMul(FMul(S, FExp(LogReturn(q, m, za))), jf)
     ELSE IF mt = "INTEREST_RATE_VASICEK"
     THEN S + FMul(FMul(kappa(q), theta(q) - S), q.dt) + noise
     ELSE IF mt = "INTEREST_RATE_CIR"
     THEN LET currentLevel == Max(S, 1)
          IN currentLevel + FMul(FMul(kappa(q), theta(q) - currentLevel), q.dt)
             + FMul(FMul(FMul(PricingVol(q), FSqrt(currentLevel)), FSqrt(q.dt)), za)
     ELSE IF mt \in {"MACRO_INFLATION", "OU_PROCESS"}
     THEN S + FMul(m, q.dt) + FMul(FMul(kappa(q), theta(q) - S), q.dt) + noise
     ELSE S

\* the switch on modelType without the case MACRO_INFLATION
EvolveWithoutMacro(q, m, S, za, jf) ==
  LET mt == q.modelType
      noise == FMul(FMul(sigma(q), FSqrt(q.dt)), za)
  IN IF mt = "EQUITY_GBM" THEN FMul(S, FExp(LogReturn(q, m, za)))
     ELSE IF mt = "EQUITY_MERTON_JUMP"
     THEN FMul(FMul(S, FExp(LogReturn(q, m, za))), jf)
     ELSE IF mt = "INTEREST_RATE_VASICEK"
     THEN S + FMul(FMul(kappa(q), theta(q) - S), q.dt) + noise
     ELSE IF mt = "INTEREST_RATE_CIR"
     THEN LET currentLevel == Max(S, 1)
          IN currentLevel + FMul(FMul(kappa(q), theta(q) - currentLevel), q.dt)
             + FMul(FMul(FMul(sigma(q), FSqrt(currentLevel)), FSqrt(q.dt)), za)
     ELSE IF mt = "OU_PROCESS"
     THEN S + FMul(m, q.dt) + FMul(FMul(kappa(q), theta(q) - S), q.dt) + noise
     ELSE S

\* the switch on modelType with the mean jump applied on the steps
\* without a jump
EvolveJumpAlways(q, m, S, za, jf) ==
  LET mt == q.modelType
      noise == FMul(FMul(sigma(q), FSqrt(q.dt)), za)
  IN IF mt = "EQUITY_GBM" THEN FMul(S, FExp(LogReturn(q, m, za)))
     ELSE IF mt = "EQUITY_MERTON_JUMP"
     THEN FMul(FMul(S, FExp(LogReturn(q, m, za))),
               IF jf = SCALE THEN FExp(jumpMu(q)) ELSE jf)
     ELSE IF mt = "INTEREST_RATE_VASICEK"
     THEN S + FMul(FMul(kappa(q), theta(q) - S), q.dt) + noise
     ELSE IF mt = "INTEREST_RATE_CIR"
     THEN LET currentLevel == Max(S, 1)
          IN currentLevel + FMul(FMul(kappa(q), theta(q) - currentLevel), q.dt)
             + FMul(FMul(FMul(sigma(q), FSqrt(currentLevel)), FSqrt(q.dt)), za)
     ELSE IF mt \in {"MACRO_INFLATION", "OU_PROCESS"}
     THEN S + FMul(m, q.dt) + FMul(FMul(kappa(q), theta(q) - S), q.dt) + noise
     ELSE S

\* the switch on modelType: the spot after one step from S under the shock
\* za and the jump factor jf (1 outside a jump)
Evolve(q, m, S, za, jf) ==
  LET mt == q.modelType
      noise == FMul(FMul(sigma(q), FSqrt(q.dt)), za)
  IN IF mt = "EQUITY_GBM" THEN FMul(S, FExp(LogReturn(q, m, za)))
     ELSE IF mt = "EQUITY_MERTON_JUMP"
     THEN FMul(FMul(S, FExp(LogReturn(q, m, za))), jf)
     ELSE IF mt = "INTEREST_RATE_VASICEK"
     THEN S + FMul(FMul(kappa(q), theta(q) - S), q.dt) + noise
     ELSE IF mt = "INTEREST_RATE_CIR"
     THEN LET currentLevel == Max(S, 1)
          IN currentLevel + FMul(FMul(kappa(q), theta(q) - currentLevel), q.dt)
             + FMul(FMul(FMul(sigma(q), FSqrt(currentLevel)), FSqrt(q.dt)), za)
     ELSE IF mt \in {"MACRO_INFLATION", "OU_PROCESS"}
     THEN S + FMul(m, q.dt) + FMul(FMul(kappa(q), theta(q) - S), q.dt) + noise
     ELSE S

\* The least logarithm of a double that is not 0: a product below 2^-1075 =
\* exp(-745.13...) rounds to 0.
MIN_LOG == -746 * SCALE

\* ln currentSpot at the entry of the loop, under EQUITY_GBM from a positive
\* initial value; NaN where it is not followed
SpotLog0(q) ==
  IF q.modelType = "EQUITY_GBM" /\ q.initialValue # NaN /\ q.initialValue > 0
  THEN FLn(q.initialValue) ELSE NaN

\* ln currentSpot after currentSpot = currentSpot * Math.exp(x) from
\* ln currentSpot = l, NaN once the double currentSpot is 0.  A step that at
\* least divides by e takes every double, however small, to 0 below exp(MIN_LOG).
StepLog(q, l, x) ==
  IF q.modelType # "EQUITY_GBM" \/ l = NaN THEN NaN
  ELSE IF x <= -SCALE /\ l + x < MIN_LOG THEN NaN
  ELSE l + x

(***************************************************************************)
(* generateSynthesizedData, one action per stretch of code between two     *)
(* reads of the uniform source.                                            *)
(***************************************************************************)

\* the call and its setup: the destructuring, pricingVol, the initial
\* state, startDate = new Date(), effectiveMu and rho
Setup(q) ==
  /\ pc' = "loop"
  /\ p' = q
  /\ pricingVol' = PricingVol(q)
  /\ effectiveMu' = EffectiveMu(q)
  /\ rho' = Rho(q)
  /\ startDate' = [day |-> clock.day, hour |-> clock.hour]
  /\ i' = 0
  /\ currentSpot' = q.initialValue
  /\ spotLog' = SpotLog0(q)
  /\ marketProxy' = q.initialValue
  /\ data' = <<>>
  /\ marketEpsilon' = 0
  /\ idiosyncraticEpsilon' = 0
  /\ assetEpsilon' = 0
  /\ jumpEpsilon' = 0
  /\ u' = 0
  /\ v' = 0
  /\ drawFor' = "none"
  /\ pricerArgs' = <<>>
  /\ result' = <<>>

\* an iteration up to data.push, then the call of getStandardNormal for
\* marketEpsilon
PushPoint ==
  /\ pc = "loop"
  /\ i <= p.timeHorizon
  /\ data' = Append(data, Point(p, currentSpot, marketProxy, i))
  /\ pricerArgs' = PricerCall(p, currentSpot, i)
  /\ pc' = "normal"
  /\ drawFor' = "market"
  /\ u' = 0
  /\ v' = 0
  /\ UNCHANGED appVars
  /\ UNCHANGED <<clock, uniforms, p, pricingVol, effectiveMu, rho, startDate, i,
                 currentSpot, spotLog, marketProxy, marketEpsilon, idiosyncraticEpsilon,
                 assetEpsilon, jumpEpsilon, result>>

\* the loop is left: the summary over the displayed values and the return
Return ==
  /\ pc = "loop"
  /\ ~(i <= p.timeHorizon)
  /\ result' = <<[parameters |-> p, data |-> data,
                  summary |-> calculateSummary([k \in 1..Len(data) |-> data[k].value])]>>
  /\ pc' = "done"
  /\ UNCHANGED appVars
  /\ UNCHANGED <<clock, uniforms, p, pricingVol, effectiveMu, rho, startDate, i,
                 currentSpot, spotLog, marketProxy, data, marketEpsilon,
                 idiosyncraticEpsilon, assetEpsilon, jumpEpsilon, u, v, drawFor,
                 pricerArgs>>

\* getStandardNormal: while (u === 0) u = Math.random()
DrawU ==
  /\ pc = "normal"
  /\ u = 0
  /\ \E x \in uniforms : u' = x
  /\ UNCHANGED appVars
  /\ UNCHANGED <<clock, uniforms, pc, p, pricingVol, effectiveMu, rho, startDate, i,
                 currentSpot, spotLog, marketProxy, data, marketEpsilon,
                 idiosyncraticEpsilon, assetEpsilon, jumpEpsilon, v, drawFor,
                 pricerArgs, result>>

\* getStandardNormal with the second loop assigning u:
\* while (v === 0) u = Math.random()
DrawVStuck ==
  /\ pc = "normal"
  /\ u # 0
  /\ \E x \in uniforms : u' = IF x = 0 THEN u ELSE x
  /\ UNCHANGED appVars
  /\ UNCHANGED <<clock, uniforms, pc, p, pricingVol, effectiveMu, rho, startDate, i,
                 currentSpot, spotLog, marketProxy, data, marketEpsilon,
                 idiosyncraticEpsilon, assetEpsilon, jumpEpsilon, v, drawFor,
                 pricerArgs, result>>

\* getStandardNormal: while (v === 0) v = Math.random(), and the return to
\* the call site
DrawV ==
  /\ pc = "normal"
  /\ u # 0
  /\ \E x \in uniforms :
       IF x = 0
       THEN UNCHANGED <<pc, marketEpsilon, idiosyncraticEpsilon, jumpEpsilon, u, v,
                        drawFor>>
       ELSE /\ u' = 0
            /\ v' = 0
            /\ marketEpsilon' = IF drawFor = "market" THEN BoxMuller(u, x)
                                ELSE marketEpsilon
            /\ idiosyncraticEpsilon' = IF drawFor = "idiosyncratic" THEN BoxMuller(u, x)
                                       ELSE idiosyncraticEpsilon
            /\ jumpEpsilon' = IF drawFor = "jump" THEN BoxMuller(u, x) ELSE jumpEpsilon
            /\ drawFor' = IF drawFor = "market" THEN "idiosyncratic" ELSE "none"
            /\ pc' = IF drawFor = "market" THEN "normal"
                     ELSE IF drawFor = "idiosyncratic" THEN "coupling"
                     ELSE "jumped"
  /\ UNCHANGED appVars
  /\ UNCHANGED <<clock, uniforms, p, pricingVol, effectiveMu, rho, startDate, i,
                 currentSpot, spotLog, marketProxy, data, assetEpsilon, pricerArgs, result>>

\* the coupling, the market proxy and the step of every model without a
\* jump; under EQUITY_MERTON_JUMP the draw Math.random() < lambda dt, and
\* on a jump the call of getStandardNormal for jumpEpsilon
Advance ==
  /\ pc = "coupling"
  /\ assetEpsilon' = Couple(rho, marketEpsilon, idiosyncraticEpsilon)
  /\ marketProxy' = ProxyStep(marketProxy, p.dt, marketEpsilon)
  /\ \E x \in uniforms :
       IF p.modelType = "EQUITY_MERTON_JUMP" /\ x < FMul(lambda(p), p.dt)
       THEN /\ pc' = "normal"
            /\ drawFor' = "jump"
            /\ UNCHANGED <<i, currentSpot, spotLog>>
       ELSE /\ currentSpot' = Evolve(p, effectiveMu, currentSpot, assetEpsilon', SCALE)
            /\ spotLog' = StepLog(p, spotLog, LogReturn(p, effectiveMu, assetEpsilon'))
            /\ i' = i + 1
            /\ pc' = "loop"
            /\ UNCHANGED drawFor
  /\ UNCHANGED appVars
  /\ UNCHANGED <<clock, uniforms, p, pricingVol, effectiveMu, rho, startDate, data,
                 marketEpsilon, idiosyncraticEpsilon, jumpEpsilon, u, v, pricerArgs,
                 result>>

\* the step of EQUITY_MERTON_JUMP on a jump:
\* jumpFactor = exp(jumpMu + jumpSigma jumpEpsilon)
Jump ==
  /\ pc = "jumped"
  /\ currentSpot' = Evolve(p, effectiveMu, currentSpot, assetEpsilon,
                           FExp(jumpMu(p) + FMul(jumpSigma(p), jumpEpsilon)))
  /\ i' = i + 1
  /\ pc' = "loop"
  /\ UNCHANGED appVars
  /\ UNCHANGED <<clock, uniforms, p, pricingVol, effectiveMu, rho, startDate, spotLog,
                 marketProxy, data, marketEpsilon, idiosyncraticEpsilon,
                 assetEpsilon, jumpEpsilon, u, v, drawFor, pricerArgs, result>>

(***************************************************************************)
(* The runs checked: parameter sets, clocks and uniform sources.           *)
(***************************************************************************)

\* the timeHorizon of the runs checked under every sequence of shocks goes
\* up to MaxSteps, that of the runs with one shock value is LongSteps
MaxSteps == 1
LongSteps == 10

\* { ...params, ...newParams }
Merge(q, newParams) == newParams @@ q

\* INITIAL_PARAMS of the App
INITIAL_PARAMS ==
  [modelType |-> "EQUITY_GBM", assetClass |-> "EQUITY", initialValue |-> 100 * SCALE,
   timeHorizon |-> 365, dt |-> FDiv(SCALE, 252 * SCALE), mu |-> 800, sigma |-> 2000,
   kappa |-> 20000, theta |-> 500, dividendYield |-> 200,
   correlations |-> [equity |-> 7000, rates |-> -2000, volatility |-> -5000,
                     commodity |-> 1000]]

\* clocks: noon in UTC; 19:00 in a zone at UTC-4 that falls back to UTC-5 the
\* next day; 01:00 in a zone at UTC+1 that springs forward to UTC+2 two days on
NoonUTC == [day |-> 100, hour |-> 12, before |-> 0, after |-> 0, switchDay |-> 0]
EveningWest == [day |-> 100, hour |-> 19, before |-> -4, after |-> -5, switchDay |-> 101]
NightEast == [day |-> 100, hour |-> 1, before |-> 1, after |-> 2, switchDay |-> 102]

\* uniform sources: the values Math.random() returns are 0, exp(-2) and 1/2
Uniforms == {0, 1353, 5000}

\* a rate of 5% under each mean-reverting model
Rates(model, class) ==
  Merge(INITIAL_PARAMS, [modelType |-> model, assetClass |-> class, initialValue |-> 500])

\* an option or swaption on a lognormal underlying
Derivative(class, spot, strike, call) ==
  Merge(INITIAL_PARAMS, [assetClass |-> class, initialValue |-> spot,
                         strikePrice |-> strike, isCall |-> call, expiryTime |-> 100,
                         impliedVol |-> 2000, riskFreeRate |-> 300])

\* parameter sets whose runs are checked under every sequence of shocks
Volatile ==
  { INITIAL_PARAMS,
    Merge(INITIAL_PARAMS, [modelType |-> "EQUITY_MERTON_JUMP", lambda |-> 50 * SCALE,
                           jumpMu |-> -1000, jumpSigma |-> 2000,
                           correlations |-> [equity |-> 7000, rates |-> 5000]]),
    Merge(INITIAL_PARAMS, [modelType |-> "EQUITY_MERTON_JUMP", lambda |-> 0,
                           jumpMu |-> -1000, jumpSigma |-> 2000]),
    Merge(INITIAL_PARAMS, [assetClass |-> "FX", domesticRate |-> 700, foreignRate |-> 100,
                           correlations |-> <<>>]),
    Merge(INITIAL_PARAMS, [assetClass |-> "COMMODITY", storageCost |-> 100,
                           convenienceYield |-> 300, seasonalAmplitude |-> 5 * SCALE,
                           correlations |-> [commodity |-> -8000, rates |-> -6000]]),
    Merge(INITIAL_PARAMS, [assetClass |-> "FORWARD", riskFreeRate |-> 300,
                           correlations |-> [equity |-> SCALE]]),
    Merge(Rates("INTEREST_RATE_CIR", "CENTRAL_BANK_RATE"),
          [initialValue |-> 100, sigma |-> 15000]),
    Merge(Rates("INTEREST_RATE_CIR", "FIXED_INCOME"),
          [cdsSpread |-> 50, correlations |-> [rates |-> -SCALE]]),
    Merge(Rates("INTEREST_RATE_VASICEK", "SWAP"), [strikePrice |-> 30 * SCALE]),
    Merge(Rates("OU_PROCESS", "UNEMPLOYMENT_RATE"),
          [initialValue |-> 4 * SCALE, theta |-> 5 * SCALE,
           correlations |-> [equity |-> NaN, rates |-> 3000]]),
    Merge(Rates("MACRO_INFLATION", "INFLATION_RATE"),
          [initialValue |-> 3 * SCALE, theta |-> 2 * SCALE, seasonalAmplitude |-> 5000]),
    Derivative("OPTION", 100 * SCALE, 100 * SCALE, TRUE),
    Merge(Derivative("SWAPTION", 500, 30 * SCALE, FALSE),
          [modelType |-> "INTEREST_RATE_VASICEK"]) }

\* parameter sets without drift and volatility: the underlying stays where
\* it starts
Still(class) == Merge(INITIAL_PARAMS, [assetClass |-> class, mu |-> 0, sigma |-> 0])

\* parameter sets whose runs are checked over LongSteps steps
Steady ==
  { Still(class) : class \in {"EQUITY", "FX", "TOTAL_PRODUCTIVITY", "GDP_GROWTH"} }
  \cup { Merge(Still("EQUITY"), [dividendYield |-> 0]),
         Merge(Still("FX"), [domesticRate |-> 500, foreignRate |-> 500]),
         Merge(Still("FIXED_INCOME"), [initialValue |-> 500]),
         Merge(Still("FX"), [domesticRate |-> 700, foreignRate |-> 100]) }
  \cup { Merge(Derivative("OPTION", spot * SCALE, 100 * SCALE, call),
               [mu |-> 0, sigma |-> 0]) :
           spot \in {90, 100, 110}, call \in BOOLEAN }
  \cup { Merge(Derivative("OPTION", spot * SCALE, 100 * SCALE, call),
               [mu |-> 0, sigma |-> 0, impliedVol |-> 0]) :
           spot \in {90, 110}, call \in BOOLEAN }
  \cup { Merge(Derivative("SWAPTION", 500, strike * SCALE, payer),
               [modelType |-> "INTEREST_RATE_CIR"]) :
           strike \in {30, 50}, payer \in BOOLEAN }
  \cup { Derivative("OPTION", 100 * SCALE, 95 * SCALE, TRUE),
         Merge(Derivative("SWAPTION", 500, 30 * SCALE, TRUE),
               [modelType |-> "INTEREST_RATE_CIR", riskFreeRate |-> 0]),
         Merge(INITIAL_PARAMS, [assetClass |-> "FUTURE", sigma |-> 0, riskFreeRate |-> 500]),
         Merge(INITIAL_PARAMS, [modelType |-> "EQUITY_MERTON_JUMP", lambda |-> 200 * SCALE,
                                jumpMu |-> -1000, jumpSigma |-> 2000]) }

\* INITIAL_PARAMS, a year of steps, at a volatility of 4000%
Extreme == Merge(INITIAL_PARAMS, [sigma |-> 40 * SCALE])

Runs ==
  { [params |-> Merge(q, [timeHorizon |-> n]), clock |-> NoonUTC, uniforms |-> Uniforms] :
      q \in Volatile, n \in 1..MaxSteps }
  \cup
  { [params |-> Extreme, clock |-> NoonUTC, uniforms |-> {0, 5000}] }
  \cup
  { [params |-> Merge(q, [timeHorizon |-> LongSteps]), clock |-> c, uniforms |-> {0, x}] :
      q \in Steady, c \in {NoonUTC, EveningWest, NightEast}, x \in Uniforms \ {0} }

\* the App and the AIAssistant before anything happened
AppIdle ==
  /\ past = <<>>
  /\ params = INITIAL_PARAMS
  /\ future = <<>>
  /\ appResult = <<>>
  /\ insights = <<>>
  /\ isGenerating = FALSE
  /\ timers = <<>>
  /\ insightCalls = <<>>
  /\ loading = FALSE
  /\ error = <<>>
  /\ preview = <<>>
  /\ scenarioCall = FALSE
  /\ inputs = <<>>

\* generateSynthesizedData was called with q and is at the head of its loop
Called(q) ==
  /\ pc = "loop"
  /\ p = q
  /\ pricingVol = PricingVol(q)
  /\ effectiveMu = EffectiveMu(q)
  /\ rho = Rho(q)
  /\ startDate = [day |-> clock.day, hour |-> clock.hour]
  /\ i = 0
  /\ currentSpot = q.initialValue
  /\ spotLog = SpotLog0(q)
  /\ marketProxy = q.initialValue
  /\ data = <<>>
  /\ marketEpsilon = 0
  /\ idiosyncraticEpsilon = 0
  /\ assetEpsilon = 0
  /\ jumpEpsilon = 0
  /\ u = 0
  /\ v = 0
  /\ drawFor = "none"
  /\ pricerArgs = <<>>
  /\ result = <<>>

\* one call of generateSynthesizedData
Init ==
  \E run \in Runs :
    /\ clock = run.clock
    /\ uniforms = run.uniforms
    /\ Called(run.params)
    /\ AppIdle

Next == PushPoint \/ Return \/ DrawU \/ DrawV \/ Advance \/ Jump

Spec == Init /\ [][Next]_vars

(***************************************************************************)
(* The validation of ModelControls.                                        *)
(***************************************************************************)

\* x < b and x > b on numbers: false when x is NaN or undefined
Below(x, b) == x # NaN /\ x < b
Above(x, b) == x # NaN /\ x > b

isMeanReverting(q) ==
  q.modelType \in {"INTEREST_RATE_VASICEK", "INTEREST_RATE_CIR", "OU_PROCESS",
                   "MACRO_INFLATION"}

isDerivative(q) == q.assetClass \in {"OPTION", "FORWARD", "FUTURE", "SWAP", "SWAPTION"}

\* the fields the validation effect reports an error for
ValidationErrors(q) ==
  { f \in {"initialValue"} : ~Above(q.initialValue, 0) /\ q.initialValue # NaN }
  \cup { f \in {"sigma"} : Below(Field(q, "sigma", NaN), 0)
                           \/ Above(Field(q, "sigma", NaN), 15000) }
  \cup { f \in {"mu"} : Below(Field(q, "mu", NaN), -SCALE) \/ Above(Field(q, "mu", NaN), SCALE) }
  \cup { f \in {"timeHorizon"} : Below(q.timeHorizon, 1) \/ Above(q.timeHorizon, 5000) }
  \cup { f \in {"kappa"} : isMeanReverting(q)
                           /\ (Below(Field(q, "kappa", NaN), 0)
                               \/ Above(Field(q, "kappa", NaN), 50 * SCALE)) }
  \cup { f \in {"theta"} : isMeanReverting(q)
                           /\ (Below(Field(q, "theta", NaN), -SCALE)
                               \/ Above(Field(q, "theta", NaN), 1000 * SCALE)) }
  \cup { f \in {"strikePrice"} : isDerivative(q) /\ "strikePrice" \in DOMAIN q
                                 /\ q.strikePrice # NaN /\ q.strikePrice <= 0 }
  \cup { f \in {"expiryTime"} : isDerivative(q)
                                /\ (Below(Field(q, "expiryTime", NaN), 100)
                                    \/ Above(Field(q, "expiryTime", NaN), 20 * SCALE)) }
  \cup { f \in {"impliedVol"} : isDerivative(q)
                                /\ (Below(Field(q, "impliedVol", NaN), 0)
                                    \/ Above(Field(q, "impliedVol", NaN), 2 * SCALE)) }
  \cup { f \in {"riskFreeRate"} : isDerivative(q)
                                  /\ (Below(Field(q, "riskFreeRate", NaN), -2000)
                                      \/ Above(Field(q, "riskFreeRate", NaN), 3000)) }

\* the Generate button is disabled on any error
hasErrors(q) == ValidationErrors(q) # {}

(***************************************************************************)
(* Properties of a call of generateSynthesizedData.                        *)
(***************************************************************************)

\* C1: the returned path has timeHorizon + 1 points, their index fields are
\* 0, 1, ..., timeHorizon in order, and the date of the point with index k is
\* the date of the first point plus k days.
C1_PathDated ==
  pc = "done" /\ p.timeHorizon >= 1 =>
    /\ Len(result[1].data) = p.timeHorizon + 1
    /\ \A k \in 1..Len(result[1].data) :
         /\ result[1].data[k].index = k - 1
         /\ result[1].data[k].timestamp = result[1].data[1].timestamp + (k - 1)

\* C2: under INTEREST_RATE_CIR with theta >= 0 and a non-negative initial
\* value, the underlyingValue of every point is >= 0.
C2_CIRNonNegative ==
  p.modelType = "INTEREST_RATE_CIR" /\ theta(p) >= 0 /\ p.initialValue >= 0 =>
    \A k \in 1..Len(data) : data[k].underlyingValue >= 0

\* C3: an OPTION point whose time to expiry is at the floor has the intrinsic
\* payoff as its value, a delta of 1 or 0 (call) or 0 or -1 (put) by
\* moneyness, and gamma, vega, theta and rho equal to 0.
C3_ExpiryIntrinsic ==
  p.assetClass = "OPTION" =>
    \A k \in 1..Len(data) :
      expiryTime(p) - ((k - 1) * SCALE) \div 365 <= 1 =>
        LET S == data[k].underlyingValue
            K == strikePrice(p)
        IN /\ data[k].value = IF isCall(p) THEN Max(0, S - K) ELSE Max(0, K - S)
           /\ data[k].greeks.delta = IF isCall(p) THEN (IF S > K THEN SCALE ELSE 0)
                                     ELSE (IF S < K THEN -SCALE ELSE 0)
           /\ data[k].greeks.gamma = 0
           /\ data[k].greeks.vega = 0
           /\ data[k].greeks.theta = 0
           /\ data[k].greeks.rho = 0

\* C5 as stated: under EQUITY_GBM with mu = 0 and sigma = 0 the value of
\* every point is initialValue.
C5_FlatPath ==
  p.modelType = "EQUITY_GBM" /\ mu(p) = 0 /\ sigma(p) = 0 =>
    \A k \in 1..Len(data) : data[k].value = p.initialValue

\* the asset classes whose displayed value is the underlying plus the
\* seasonal shift
PlainClasses ==
  {"EQUITY", "FX", "COMMODITY", "CENTRAL_BANK_RATE", "INFLATION_RATE",
   "TOTAL_PRODUCTIVITY", "GDP_GROWTH"}

\* C5 as amended: under EQUITY_GBM with sigma = 0, an effective drift (mu
\* after the adjustment of the asset class) of 0, an asset class whose
\* displayed value is the underlying and no seasonal amplitude, the value
\* of every point is initialValue.
C5_FlatPathPlain ==
  /\ p.modelType = "EQUITY_GBM"
  /\ sigma(p) = 0
  /\ p.assetClass \in PlainClasses
  /\ seasonalAmplitude(p) = 0
  /\ (p.assetClass = "EQUITY" => mu(p) = dividendYield(p))
  /\ (p.assetClass = "FX" => mu(p) = foreignRate(p) - domesticRate(p))
  /\ (p.assetClass = "COMMODITY" => mu(p) = convenienceYield(p) - storageCost(p))
  /\ (p.assetClass \notin {"EQUITY", "FX", "COMMODITY"} => mu(p) = 0)
  => \A k \in 1..Len(data) : data[k].value = p.initialValue

\* a flat path of LongSteps + 1 points was returned for an FX pair whose two
\* rates are equal and not 0
C5_Witness ==
  /\ pc = "done"
  /\ p.modelType = "EQUITY_GBM" /\ p.assetClass = "FX"
  /\ mu(p) = 0 /\ sigma(p) = 0 /\ domesticRate(p) = foreignRate(p) /\ domesticRate(p) # 0
  /\ Len(data) = LongSteps + 1
  /\ data[Len(data)].value = p.initialValue

\* C7: whenever the parameters pass the validation, a pricer is called with
\* a volatility > 0 and a strike > 0.
C7_ValidatedPricerInputs ==
  ~hasErrors(p) /\ pricerArgs # <<>> =>
    pricerArgs[1].sigma > 0 /\ pricerArgs[1].K > 0

\* C9: rho is the sum of the supplied factor coefficients clamped to
\* [-1, 1], 1 - rho^2 >= 0, and the coupling of every step used that value.
C9_RhoClampedOnce ==
  LET c == correlations(p)
      total == SumFactors(c, DOMAIN c)
      clamped == IF total > SCALE THEN SCALE ELSE IF total < -SCALE THEN -SCALE ELSE total
  IN /\ rho = clamped
     /\ SCALE - FMul(rho, rho) >= 0
     /\ (pc = "loop" /\ i > 0 =>
           assetEpsilon = FMul(clamped, marketEpsilon)
                          + FMul(FSqrt(SCALE - FMul(clamped, clamped)),
                                 idiosyncraticEpsilon))

\* a step was taken under factor coefficients whose sum exceeds 1
C9_Witness ==
  /\ pc = "loop" /\ i > 0
  /\ SumFactors(correlations(p), DOMAIN correlations(p)) > SCALE
  /\ rho = SCALE
  /\ marketEpsilon # 0

\* C10: the coupled shock of a step is the market shock at rho = 1, the
\* idiosyncratic shock at rho = 0 and the negated market shock at rho = -1.
C10_CouplingExtremes ==
  pc = "loop" /\ i > 0 =>
    /\ (rho = SCALE => assetEpsilon = marketEpsilon)
    /\ (rho = 0 => assetEpsilon = idiosyncraticEpsilon)
    /\ (rho = -SCALE => assetEpsilon = -marketEpsilon)

\* a step was taken at rho = -1 under two different shocks
C10_Witness ==
  /\ pc = "loop" /\ i > 0
  /\ rho = -SCALE
  /\ marketEpsilon # idiosyncraticEpsilon
  /\ idiosyncraticEpsilon # 0
  /\ assetEpsilon = -marketEpsilon

\* C12: the effective drift of a call is mu - dividendYield for EQUITY,
\* mu + (domesticRate - foreignRate) for FX, mu + (storageCost -
\* convenienceYield) for COMMODITY, riskFreeRate - dividendYield for FORWARD
\* and FUTURE, 0 for UNEMPLOYMENT_RATE and mu for the other eight asset
\* classes, at every step of the call.
C12_EffectiveDrift ==
  effectiveMu =
    CASE p.assetClass = "EQUITY" -> mu(p) - dividendYield(p)
      [] p.assetClass = "FX" -> mu(p) + domesticRate(p) - foreignRate(p)
      [] p.assetClass = "COMMODITY" -> mu(p) + storageCost(p) - convenienceYield(p)
      [] p.assetClass \in {"FORWARD", "FUTURE"} -> riskFreeRate(p) - dividendYield(p)
      [] p.assetClass = "UNEMPLOYMENT_RATE" -> 0
      [] p.assetClass \in {"FIXED_INCOME", "OPTION", "SWAP", "SWAPTION",
                           "CENTRAL_BANK_RATE", "INFLATION_RATE",
                           "TOTAL_PRODUCTIVITY", "GDP_GROWTH"} -> mu(p)

\* a call for a FUTURE with mu = 8%, riskFreeRate = 5% and dividendYield =
\* 2% returned after LongSteps steps at a drift of 3%
C12_Witness ==
  /\ pc = "done"
  /\ p.assetClass = "FUTURE"
  /\ mu(p) = 800 /\ riskFreeRate(p) = 500 /\ dividendYield(p) = 200
  /\ effectiveMu = 300
  /\ i = LongSteps + 1

\* other values of the inputs that only the display reads: the seasonal
\* amplitude, the strike, the implied volatility, the spreads, the P/E inputs
DisplayVariants ==
  { [seasonalAmplitude |-> 3 * SCALE, strikePrice |-> 50 * SCALE, impliedVol |-> 4000,
     creditSpread |-> 0, cdsSpread |-> 200, peRatio |-> 10 * SCALE,
     expectedEarnings |-> SCALE],
    [seasonalAmplitude |-> 0, strikePrice |-> 200 * SCALE, impliedVol |-> 0,
     creditSpread |-> 300, cdsSpread |-> 0, peRatio |-> 30 * SCALE,
     expectedEarnings |-> 20 * SCALE] }

\* C13: every step of a call takes the underlying where the call with other
\* display inputs takes it from the same underlying under the same shocks,
\* and decides the jump alike; the point pushed records the underlying
\* itself, and its value is the value without seasonal amplitude plus, for
\* COMMODITY, INFLATION_RATE and GDP_GROWTH only, sin(2 PI i / 252) times
\* the amplitude.
C13_UnderlyingApart ==
  [][\A d \in DisplayVariants :
       LET q == Merge(p, d)
       IN /\ pc = "coupling" /\ pc' = "loop" =>
               currentSpot' = Evolve(q, EffectiveMu(q), currentSpot,
                                     Couple(Rho(q), marketEpsilon, idiosyncraticEpsilon),
                                     SCALE)
          /\ pc = "coupling" /\ pc' = "normal" =>
               q.modelType = "EQUITY_MERTON_JUMP" /\ FMul(lambda(q), q.dt) > 0
          /\ pc = "jumped" /\ pc' = "loop" =>
               currentSpot' = Evolve(q, EffectiveMu(q), currentSpot, assetEpsilon,
                                     FExp(jumpMu(q) + FMul(jumpSigma(q), jumpEpsilon)))
          /\ pc = "loop" /\ pc' = "normal" =>
               LET pt == data'[Len(data')]
                   flat == Display(Merge(p, [seasonalAmplitude |-> 0]), currentSpot, i).value
               IN /\ pt.underlyingValue = currentSpot
                  /\ Point(q, currentSpot, marketProxy, i).underlyingValue = currentSpot
                  /\ pt.value =
                       IF p.assetClass \in {"COMMODITY", "INFLATION_RATE", "GDP_GROWTH"}
                          /\ seasonalAmplitude(p) > 0
                       THEN flat + FMul(FSin((2 * PI * i) \div 252), seasonalAmplitude(p))
                       ELSE flat]_vars

\* a COMMODITY call with a seasonal amplitude pushed its second point, whose
\* value is not its underlying, after a step under a shock
C13_Witness ==
  /\ p.assetClass = "COMMODITY" /\ seasonalAmplitude(p) > 0
  /\ Len(data) = 2
  /\ assetEpsilon # 0
  /\ data[2].underlyingValue # p.initialValue
  /\ data[2].value # data[2].underlyingValue

\* a <= b on doubles: false when either is NaN
AtMost(a, b) == a # NaN /\ b # NaN /\ a <= b

\* C14: the summary of a result is over the timeHorizon + 1 displayed
\* values: min and max are the least and the greatest of them, avg is their
\* sum divided by their number, vol is the square root of the mean of the
\* squared deviations from avg, min <= avg <= max and vol >= 0.
C14_SummaryOfDisplayed ==
  pc = "done" =>
    LET sm == result[1].summary
        n == Len(result[1].data)
        shown == [k \in 1..n |-> result[1].data[k].value]
    IN /\ n = p.timeHorizon + 1
       /\ \E k \in 1..n : shown[k] = sm.min
       /\ \A k \in 1..n : AtMost(sm.min, shown[k])
       /\ \E k \in 1..n : shown[k] = sm.max
       /\ \A k \in 1..n : AtMost(shown[k], sm.max)
       /\ sm.avg = Mean(SumRange(shown, 1, n), n)
       /\ sm.vol = FSqrt(MeanSquare([k \in 1..n |->
                                      FMul(shown[k] - sm.avg, shown[k] - sm.avg)], n))
       /\ AtMost(sm.min, sm.avg) /\ AtMost(sm.avg, sm.max)
       /\ AtMost(0, sm.vol)

\* C15: a point carries greeks exactly when the asset class is OPTION or
\* SWAPTION, the greeks are delta, gamma, vega, theta and rho, and a pricer
\* is called under these two asset classes only.
C15_GreeksOfDerivatives ==
  /\ \A k \in 1..Len(data) :
       /\ "greeks" \in DOMAIN data[k] <=> p.assetClass \in {"OPTION", "SWAPTION"}
       /\ "greeks" \in DOMAIN data[k] =>
            DOMAIN data[k].greeks = {"delta", "gamma", "vega", "theta", "rho"}
  /\ pricerArgs # <<>> => p.assetClass \in {"OPTION", "SWAPTION"}
  /\ pc = "done" => result[1].data = data

\* a SWAPTION call returned LongSteps + 1 points with greeks
C15_Witness ==
  /\ pc = "done"
  /\ p.assetClass = "SWAPTION"
  /\ Len(result[1].data) = LongSteps + 1
  /\ \A k \in 1..Len(result[1].data) : result[1].data[k].greeks.delta # NaN
  /\ pricerArgs[1].fn = "calculateBlackSwaption"

\* the clocks of a call: those of the runs, and noon in UTC a day later
Clocks == {NoonUTC, EveningWest, NightEast, [NoonUTC EXCEPT !.day = NoonUTC.day + 1]}

\* the timestamp of the point of iteration k of a call made at the clock c:
\* startDate = new Date(), k local days later, printed in UTC
TimestampAt(c, k) ==
  ((c.day + k) * 24 + c.hour
   - (IF c.day + k < c.switchDay THEN c.before ELSE c.after)) \div 24

\* C16: the points and the summary of a call are those of every call with
\* the same parameters and the same draws, whatever the clock it is made
\* at; the parameters are not modified and the result holds them.
C16_PureOfParamsAndDraws ==
  /\ \A k \in 1..Len(data) : \A c \in Clocks :
       data[k] = [data[k] EXCEPT !.timestamp = TimestampAt(c, k - 1)]
  /\ pc = "done" => result[1].parameters = p /\ result[1].data = data

\* C17: under EQUITY_GBM from an initial value > 0 the underlying is > 0 at
\* every step.
C17_GBMPositive ==
  p.modelType = "EQUITY_GBM" /\ p.initialValue > 0 => spotLog # NaN

\* C18: the point of an iteration is pushed before its shocks are drawn and
\* before the benchmark and the underlying are advanced: the first point
\* holds initialValue as underlying and as benchmark, the point pushed after
\* k advances has index k and holds the underlying and the benchmark of
\* then, and the advance of the last iteration is in no point.
C18_PushThenAdvance ==
  /\ [](/\ Len(data) >= 1 =>
             /\ data[1].underlyingValue = p.initialValue
             /\ data[1].benchmarkValue = p.initialValue
        /\ pc \in {"normal", "coupling", "jumped"} => Len(data) = i + 1
        /\ pc = "loop" => Len(data) = i
        /\ pc = "done" =>
             /\ i = p.timeHorizon + 1
             /\ result[1].data = data
             /\ data[Len(data)].index = p.timeHorizon)
  /\ [][/\ data' # data =>
             /\ Len(data) = i
             /\ \E pt \in {data'[Len(data')]} :
                  /\ data' = Append(data, pt)
                  /\ pt.index = i
                  /\ pt.underlyingValue = currentSpot
                  /\ pt.benchmarkValue = marketProxy
             /\ UNCHANGED <<i, currentSpot, marketProxy, marketEpsilon,
                            idiosyncraticEpsilon, assetEpsilon>>
        /\ (currentSpot' # currentSpot \/ marketProxy' # marketProxy) =>
             Len(data) = i + 1 /\ data' = data
        /\ (marketEpsilon' # marketEpsilon \/ idiosyncraticEpsilon' # idiosyncraticEpsilon) =>
             Len(data) = i + 1 /\ data' = data
        /\ i' # i => i' = i + 1 /\ Len(data) = i']_vars

\* a call returned two points after two advances: the second point holds the
\* underlying after the first advance, and the second advance moved the
\* underlying and the benchmark
C18_Witness ==
  /\ pc = "done"
  /\ i = 2
  /\ Len(result[1].data) = 2
  /\ data[2].underlyingValue # p.initialValue
  /\ currentSpot # data[2].underlyingValue
  /\ marketProxy # data[2].benchmarkValue

C20_BenchmarkApart ==
  /\ [](/\ Len(data) >= 1 => data[1].benchmarkValue = p.initialValue
        /\ p.initialValue > 0 =>
             /\ marketProxy > 0
             /\ \A k \in 1..Len(data) : data[k].benchmarkValue > 0)
  /\ [][IF pc = "coupling"
        THEN marketProxy' =
               FMul(marketProxy,
                    FExp(FMul(600 - FMul(1500, 1500) \div 2, p.dt)
                         + FMul(FMul(1500, FSqrt(p.dt)), marketEpsilon)))
        ELSE marketProxy' = marketProxy]_vars

\* a call under INTEREST_RATE_CIR without drift adjustment returned points
\* whose benchmark moved with the market shock
C20_Witness ==
  /\ pc = "done"
  /\ p.modelType = "INTEREST_RATE_CIR"
  /\ marketEpsilon # 0
  /\ Len(data) >= 2
  /\ data[2].benchmarkValue # p.initialValue
  /\ data[2].benchmarkValue > 0

\* C21: under EQUITY_MERTON_JUMP a jump is taken only where a value of the
\* uniform source is below lambda dt, so never with lambda = 0, and a
\* step without a jump takes the underlying where the step of EQUITY_GBM
\* takes it from the same state under the same coupled shock.
C21_JumpFactor ==
  /\ [](pc = "jumped" \/ drawFor = "jump" =>
          /\ p.modelType = "EQUITY_MERTON_JUMP"
          /\ \E x \in uniforms : x < FMul(lambda(p), p.dt)
          /\ lambda(p) # 0)
  /\ [][pc = "coupling" /\ pc' = "loop" /\ p.modelType = "EQUITY_MERTON_JUMP" =>
          currentSpot' = Evolve(Merge(p, [modelType |-> "EQUITY_GBM"]), effectiveMu,
                                currentSpot, assetEpsilon', SCALE)]_vars

\* a call under EQUITY_MERTON_JUMP with lambda = 0 returned a path that
\* moved
C21_Witness ==
  /\ pc = "done"
  /\ p.modelType = "EQUITY_MERTON_JUMP"
  /\ lambda(p) = 0
  /\ jumpMu(p) # 0
  /\ Len(data) >= 2
  /\ data[2].underlyingValue # p.initialValue

\* C22: every step of the loop advances the counter and takes the
\* underlying by the rule of the model: S exp((m - sigma^2/2) dt + sigma
\* sqrt(dt) Za), times the jump factor under EQUITY_MERTON_JUMP; S +
\* kappa (theta - S) dt + sigma sqrt(dt) Za under INTEREST_RATE_VASICEK;
\* the same from max(S, 0.0001) with sigma sqrt(S) under INTEREST_RATE_CIR;
\* and under OU_PROCESS and MACRO_INFLATION the step of
\* INTEREST_RATE_VASICEK plus m dt.
C22_StepRules ==
  [][(pc = "coupling" /\ pc' = "loop") \/ pc = "jumped" =>
       /\ i' = i + 1
       /\ LET mt == p.modelType
              S == currentSpot
              za == assetEpsilon'
              dt == p.dt
              growth == FExp(FMul(effectiveMu - FMul(sigma(p), sigma(p)) \div 2, dt)
                             + FMul(FMul(sigma(p), FSqrt(dt)), za))
              noise == FMul(FMul(sigma(p), FSqrt(dt)), za)
              level == IF S > 1 THEN S ELSE 1
          IN IF mt = "EQUITY_GBM" THEN currentSpot' = FMul(S, growth)
             ELSE IF mt = "EQUITY_MERTON_JUMP"
             THEN currentSpot' =
                    FMul(FMul(S, growth),
                         IF pc = "jumped"
                         THEN FExp(jumpMu(p) + FMul(jumpSigma(p), jumpEpsilon))
                         ELSE SCALE)
             ELSE IF mt = "INTEREST_RATE_VASICEK"
             THEN currentSpot' = S + FMul(FMul(kappa(p), theta(p) - S), dt) + noise
             ELSE IF mt = "INTEREST_RATE_CIR"
             THEN currentSpot' =
                    level + FMul(FMul(kappa(p), theta(p) - level), dt)
                    + FMul(FMul(FMul(sigma(p), FSqrt(level)), FSqrt(dt)), za)
             ELSE IF mt \in {"OU_PROCESS", "MACRO_INFLATION"}
             THEN currentSpot' =
                    Evolve(Merge(p, [modelType |-> "INTEREST_RATE_VASICEK"]),
                           effectiveMu, S, za, SCALE)
                    + FMul(effectiveMu, dt)
             ELSE FALSE]_vars

\* a call under MACRO_INFLATION with a drift returned a path that moved
C22_Witness ==
  /\ pc = "done"
  /\ p.modelType = "MACRO_INFLATION"
  /\ FMul(effectiveMu, p.dt) # 0
  /\ Len(data) >= 2
  /\ data[2].underlyingValue # p.initialValue

\* AnalysisBoard: Object.values(corrs).reduce((acc, val) => acc + (val || 0), 0)
\* over the correlations of the parameters of the result
effectiveRho(q) == SumFactors(correlations(q), DOMAIN correlations(q))

\* C29: the coefficient the board shows for a returned result is the rho
\* the engine coupled its shocks with.
C29_BoardRho == pc = "done" => effectiveRho(result[1].parameters) = rho

(***************************************************************************)
(* The pricers called directly.                                            *)
(***************************************************************************)

\* the locals of generateSynthesizedData outside a call
NoCall ==
  /\ p = <<>>
  /\ pricingVol = 0
  /\ effectiveMu = 0
  /\ rho = 0
  /\ startDate = [day |-> 0, hour |-> 0]
  /\ i = 0
  /\ currentSpot = 0
  /\ spotLog = NaN
  /\ marketProxy = 0
  /\ data = <<>>
  /\ marketEpsilon = 0
  /\ idiosyncraticEpsilon = 0
  /\ assetEpsilon = 0
  /\ jumpEpsilon = 0
  /\ u = 0
  /\ v = 0
  /\ drawFor = "none"

\* the arguments of the direct calls: prices and rates for S and K, times
\* from a year past expiry to a year before it
PricerInputs ==
  [fn : {"calculateBS", "calculateBlackSwaption"},
   S : {0, 300, 500, 90 * SCALE, 100 * SCALE},
   K : {300, 500, 95 * SCALE, 100 * SCALE},
   T : {-SCALE, -1, 0, 1, SCALE},
   r : {-100, 0, 300},
   sigma : {-2000, 0, 2000},
   isCall : BOOLEAN]
  \cup
  [fn : {"calculateBS"},
   S : {100 * SCALE, 2000 * SCALE},
   K : {100 * SCALE, 2000 * SCALE},
   T : {2500, SCALE},
   r : {-1250, 300, 1250},
   sigma : {2000, 5000},
   isCall : BOOLEAN]

InitPricer ==
  \E args \in PricerInputs :
    /\ clock = NoonUTC
    /\ uniforms = {}
    /\ pc = "call"
    /\ pricerArgs = <<args>>
    /\ result = <<>>
    /\ NoCall
    /\ AppIdle

CallBS ==
  /\ pc = "call"
  /\ pricerArgs[1].fn = "calculateBS"
  /\ result' = <<Priced(pricerArgs[1])>>
  /\ pc' = "priced"
  /\ UNCHANGED appVars
  /\ UNCHANGED <<clock, uniforms, p, pricingVol, effectiveMu, rho, startDate, i,
                 currentSpot, spotLog, marketProxy, data, marketEpsilon,
                 idiosyncraticEpsilon, assetEpsilon, jumpEpsilon, u, v, drawFor,
                 pricerArgs>>

CallBlackSwaption ==
  /\ pc = "call"
  /\ pricerArgs[1].fn = "calculateBlackSwaption"
  /\ result' = <<Priced(pricerArgs[1])>>
  /\ pc' = "priced"
  /\ UNCHANGED appVars
  /\ UNCHANGED <<clock, uniforms, p, pricingVol, effectiveMu, rho, startDate, i,
                 currentSpot, spotLog, marketProxy, data, marketEpsilon,
                 idiosyncraticEpsilon, assetEpsilon, jumpEpsilon, u, v, drawFor,
                 pricerArgs>>

NextPricer == CallBS \/ CallBlackSwaption

SpecPricer == InitPricer /\ [][NextPricer]_vars

\* C4: called with T <= 0, calculateBS and calculateBlackSwaption return
\* max(0, S - K) (call, payer) or max(0, K - S) (put, receiver) as the price,
\* a delta of 1 or 0 (call, payer) or -1 or 0 (put, receiver) by strict
\* moneyness, and gamma = vega = theta = rho = 0.
C4_DirectExpiry ==
  pc = "priced" /\ pricerArgs[1].T <= 0 =>
    LET a == pricerArgs[1]
    IN /\ result[1].price = IF a.isCall THEN (IF a.S > a.K THEN a.S - a.K ELSE 0)
                            ELSE (IF a.K > a.S THEN a.K - a.S ELSE 0)
       /\ result[1].greeks.delta = IF a.isCall THEN (IF a.S > a.K THEN SCALE ELSE 0)
                                   ELSE (IF a.S < a.K THEN -SCALE ELSE 0)
       /\ result[1].greeks.gamma = 0
       /\ result[1].greeks.vega = 0
       /\ result[1].greeks.theta = 0
       /\ result[1].greeks.rho = 0

\* a receiver swaption was priced at the money a year past its expiry
C4_Witness ==
  /\ pc = "priced"
  /\ pricerArgs[1].fn = "calculateBlackSwaption"
  /\ pricerArgs[1].T < 0
  /\ ~pricerArgs[1].isCall
  /\ pricerArgs[1].S = pricerArgs[1].K
  /\ result[1].price = 0
  /\ result[1].greeks.delta = 0

\* the coefficients a1, ..., a5 of CND, in units of 10^-9
CNDCoefficients == <<319381530, -356563782, 1781477937, -1821255978, 1330274429>>

\* CND(0) - 1/2 in units of 10^-12.  At x = 0 the code has K = 1 and
\* exp(0) = 1, so that w = 1 - (a1 + ... + a5) / sqrt(2 PI), and w - 1/2 is
\* (sqrt(PI / 2) - (a1 + ... + a5)) / sqrt(2 PI); sqrt(PI / 2) is
\* 1.253314137316 to twelve places.
CNDZeroExcess ==
  LET a == CNDCoefficients
      sumA == a[1] + a[2] + a[3] + a[4] + a[5]
  IN (((1253314137 - sumA) * 1000 + 316) * INV_SQRT_2PI) \div SCALE

\* a number whose double is the number itself: a multiple of 1/16
Dyadic(x) == x % 625 = 0

\* whether the doubles d1 and d2 of calculateBS are 0: ln(S / K) = 0 and
\* r + sigma^2 / 2 = 0 for d1; ln(S / K) = 0, r = sigma^2 / 2 and sqrt(T) = 1
\* for d2.  Every operation on these doubles is exact.
D1IsZero(a) ==
  /\ a.S = a.K /\ Dyadic(a.r) /\ Dyadic(a.sigma)
  /\ 2 * a.r * SCALE + a.sigma * a.sigma = 0

D2IsZero(a) ==
  /\ a.S = a.K /\ Dyadic(a.r) /\ Dyadic(a.sigma)
  /\ 2 * a.r * SCALE = a.sigma * a.sigma
  /\ a.T = SCALE

\* x * e for a double x and a number e in units of 10^-12
TimesExcess(x, e) == (x \div SCALE) * e + ((x % SCALE) * e) \div SCALE

\* (call price - put price) - (S - K exp(-r T)) of calculateBS at T > 0, in
\* units of 10^-12: S (CND(d1) + CND(-d1) - 1) - K exp(-r T) (CND(d2) +
\* CND(-d2) - 1).  CND(-x) is 1 - CND(x) at x # 0, where one of the two takes
\* the branch x < 0; at x = 0 both are w and the sum is 2 CND(0).
ParityGap(a) ==
  (IF D1IsZero(a) THEN TimesExcess(a.S, 2 * CNDZeroExcess) ELSE 0)
  - (IF D2IsZero(a)
     THEN TimesExcess(FMul(a.K, FExp(-FMul(a.r, a.T))), 2 * CNDZeroExcess)
     ELSE 0)

\* C11: for S, K, T, sigma > 0 the call price less the put price of
\* calculateBS is S - K exp(-r T) within 10^-6.
C11_PutCallParity ==
  /\ pc = "priced" /\ pricerArgs[1].fn = "calculateBS"
  /\ pricerArgs[1].T > 0 /\ pricerArgs[1].sigma > 0
  /\ pricerArgs[1].S > 0 /\ pricerArgs[1].K > 0
  => Abs(ParityGap(pricerArgs[1])) <= 1000000

(***************************************************************************)
(* Termination of a call of generateSynthesizedData.                       *)
(***************************************************************************)

\* the calls whose termination is checked: CIR rates, one of them driven
\* below 0, options run down to the floor of their time to expiry, a model
\* that jumps at every step
RunsLive ==
  { run \in Runs :
      /\ run.clock = NoonUTC
      /\ \/ run.params.modelType = "INTEREST_RATE_CIR"
         \/ run.params.assetClass = "OPTION"
         \/ lambda(run.params) = 200 * SCALE }

InitLive ==
  \E run \in RunsLive :
    /\ clock = run.clock
    /\ uniforms = run.uniforms
    /\ Called(run.params)
    /\ AppIdle

\* the loop is synchronous code: it keeps running, and the uniform source
\* does not return 0 forever
SpecLive == InitLive /\ [][Next]_vars /\ WF_vars(Next)

MaxApplied == 1

MAX_HISTORY == 50

\* prev.slice(-n)
LastN(s, n) == IF Len(s) <= n THEN s ELSE SubSeq(s, Len(s) - n + 1, Len(s))

\* One call of a handler by the user: a click or a key, and for a control
\* of ModelControls the newParams it passes to onParamChange.  Anything
\* stands for a user who makes any call at any time.
Input(e) == [do |-> e, with |-> <<>>]
Change(newParams) == [do |-> "change", with |-> newParams]
Anything == Input("any")

\* the next call of the user is e; Taken removes it from the calls to come
User(e) == inputs # <<>> /\ Head(inputs).do \in {e, "any"}
Taken == inputs' = IF Head(inputs).do = "any" THEN inputs ELSE Tail(inputs)

\* the three history states a handler closes over
History == [past |-> past, params |-> params, future |-> future]

\* redo taking the last entry of future
redoFromEnd(h) ==
  IF h.future = <<>> THEN h
  ELSE [past |-> Append(h.past, h.params),
        params |-> h.future[Len(h.future)],
        future |-> SubSeq(h.future, 1, Len(h.future) - 1)]

\* handleParamChange with prev.slice(-MAX_HISTORY)
handleParamChangeSlipped(h, newParams) ==
  IF Merge(h.params, newParams) = h.params THEN h
  ELSE [past |-> Append(LastN(h.past, MAX_HISTORY), h.params),
        params |-> Merge(h.params, newParams),
        future |-> <<>>]

\* handleScenarioApplied without setFuture([])
handleScenarioAppliedKeepsRedo(h, newParams) ==
  [past |-> Append(LastN(h.past, MAX_HISTORY - 1), h.params),
   params |-> newParams,
   future |-> h.future]

\* undo taking the first entry of past
undoFromStart(h) ==
  IF h.past = <<>> THEN h
  ELSE [past |-> Tail(h.past),
        params |-> Head(h.past),
        future |-> <<h.params>> \o h.future]

\* undo
undo(h) ==
  IF h.past = <<>> THEN h
  ELSE [past |-> SubSeq(h.past, 1, Len(h.past) - 1),
        params |-> h.past[Len(h.past)],
        future |-> <<h.params>> \o h.future]

\* redo
redo(h) ==
  IF h.future = <<>> THEN h
  ELSE [past |-> Append(h.past, h.params),
        params |-> Head(h.future),
        future |-> Tail(h.future)]

\* handleParamChange.  JSON.stringify(updated) === JSON.stringify(params)
\* compares the fields in the order of params, a NaN as null: two values
\* are equal there exactly when they are equal here.
handleParamChange(h, newParams) ==
  IF Merge(h.params, newParams) = h.params THEN h
  ELSE [past |-> Append(LastN(h.past, MAX_HISTORY - 1), h.params),
        params |-> Merge(h.params, newParams),
        future |-> <<>>]

\* handleScenarioApplied, the three history states
handleScenarioApplied(h, newParams) ==
  [past |-> Append(LastN(h.past, MAX_HISTORY - 1), h.params),
   params |-> newParams,
   future |-> <<>>]

\* the objects JSON.parse returns for the answers of the translator: a jump
\* scenario, a negative volatility, a model that does not exist with an
\* empty asset class and an initial value of 0, and an answer without
\* parameters
Responses ==
  { [name |-> "Flash Crash", modelType |-> "EQUITY_MERTON_JUMP", assetClass |-> "EQUITY",
     parameters |-> [initialValue |-> 100 * SCALE, mu |-> -2000, sigma |-> 6000,
                     lambda |-> 200 * SCALE, jumpMu |-> -1000, jumpSigma |-> 2000]],
    [name |-> "Rate Shock", modelType |-> "INTEREST_RATE_VASICEK",
     assetClass |-> "CENTRAL_BANK_RATE",
     parameters |-> [initialValue |-> 500, sigma |-> -2000, kappa |-> 5000]],
    [name |-> "Regime Shift", modelType |-> "HESTON", assetClass |-> "",
     parameters |-> [initialValue |-> 0, sigma |-> 3000]],
    [name |-> "Stagflation", modelType |-> "MACRO_INFLATION",
     assetClass |-> "INFLATION_RATE"] }

\* const synthParams of startCalibration
SynthParams(r) ==
  [modelType |-> r.modelType,
   assetClass |-> IF r.assetClass = "" THEN "EQUITY" ELSE r.assetClass,
   initialValue |-> Field(r.parameters, "initialValue", 100 * SCALE),
   timeHorizon |-> 365,
   dt |-> FDiv(SCALE, 252 * SCALE),
   mu |-> Field(r.parameters, "mu", 0),
   sigma |-> Field(r.parameters, "sigma", 2000),
   kappa |-> Field(r.parameters, "kappa", 20000),
   theta |-> Field(r.parameters, "theta", 500),
   lambda |-> Field(r.parameters, "lambda", 0),
   jumpMu |-> Field(r.parameters, "jumpMu", 0),
   jumpSigma |-> Field(r.parameters, "jumpSigma", 0),
   seasonalAmplitude |-> Field(r.parameters, "seasonalAmplitude", 0),
   riskFreeRate |-> Field(r.parameters, "riskFreeRate", 300),
   domesticRate |-> Field(r.parameters, "domesticRate", 0),
   foreignRate |-> Field(r.parameters, "foreignRate", 0)]

\* Object.values(correlations).reduce((acc, val) => acc + Math.abs(val || 0), 0)
RECURSIVE SumStrength(_, _)
SumStrength(c, keys) ==
  IF keys = {} THEN 0
  ELSE LET k == CHOOSE x \in keys : TRUE
       IN Abs(OrElse(c[k], 0)) + SumStrength(c, keys \ {k})

\* the object generateData stringifies for getAnalysisInsights, of a result
\* with at least one point
SummaryStr(r) ==
  [category |-> r.parameters.assetClass,
   model |-> r.parameters.modelType,
   mu |-> Field(r.parameters, "mu", NaN),
   sigma |-> Field(r.parameters, "sigma", NaN),
   finalValue |-> r.data[Len(r.data)].value,
   vol |-> r.summary.vol,
   correlationStrength |-> SumStrength(correlations(r.parameters),
                                       DOMAIN correlations(r.parameters))]

\* the setPast, setParams and setFuture of a handler that ends in h
HistoryTo(h) == past' = h.past /\ params' = h.params /\ future' = h.future

\* a control of ModelControls calls onParamChange(newParams)
HandleParamChange ==
  /\ pc = "idle"
  /\ User("change")
  /\ Taken
  /\ HistoryTo(handleParamChange(History, Head(inputs).with))
  /\ UNCHANGED <<appResult, insights, isGenerating, timers, insightCalls, loading,
                 error, preview, scenarioCall>>
  /\ UNCHANGED <<clock, uniforms, engineVars>>

\* the Undo button or its key
Undo ==
  /\ pc = "idle"
  /\ User("undo")
  /\ Taken
  /\ HistoryTo(undo(History))
  /\ UNCHANGED <<appResult, insights, isGenerating, timers, insightCalls, loading,
                 error, preview, scenarioCall>>
  /\ UNCHANGED <<clock, uniforms, engineVars>>

\* the Redo button or its keys
Redo ==
  /\ pc = "idle"
  /\ User("redo")
  /\ Taken
  /\ HistoryTo(redo(History))
  /\ UNCHANGED <<appResult, insights, isGenerating, timers, insightCalls, loading,
                 error, preview, scenarioCall>>
  /\ UNCHANGED <<clock, uniforms, engineVars>>

\* the Generate button, disabled while isGenerating or on an error of the
\* validation: generateData() up to its setTimeout
Generate ==
  /\ pc = "idle"
  /\ User("generate")
  /\ Taken
  /\ ~isGenerating
  /\ ~hasErrors(params)
  /\ isGenerating' = TRUE
  /\ insights' = <<>>
  /\ timers' = Append(timers, params)
  /\ UNCHANGED <<past, params, future, appResult, insightCalls, loading, error, preview,
                 scenarioCall>>
  /\ UNCHANGED <<clock, uniforms, engineVars>>

\* startCalibration without setError(null)
StartCalibrationKeepsError ==
  /\ pc = "idle"
  /\ User("calibrate")
  /\ Taken
  /\ ~loading
  /\ Len(past) < MaxApplied
  /\ loading' = TRUE
  /\ preview' = <<>>
  /\ scenarioCall' = TRUE
  /\ UNCHANGED <<past, params, future, appResult, insights, isGenerating, timers,
                 insightCalls, error>>
  /\ UNCHANGED <<clock, uniforms, engineVars>>

\* startCalibration up to the await of getEconomicScenario
StartCalibration ==
  /\ pc = "idle"
  /\ User("calibrate")
  /\ Taken
  /\ ~loading
  /\ Len(past) < MaxApplied
  /\ loading' = TRUE
  /\ error' = <<>>
  /\ preview' = <<>>
  /\ scenarioCall' = TRUE
  /\ UNCHANGED <<past, params, future, appResult, insights, isGenerating, timers,
                 insightCalls>>
  /\ UNCHANGED <<clock, uniforms, engineVars>>

\* getEconomicScenario returns an object: startCalibration builds
\* synthParams and sets the preview, or reads a field of the parameters the
\* object does not have and sets the error in its catch
ScenarioReturns ==
  /\ pc = "idle"
  /\ scenarioCall
  /\ \E r \in Responses :
       IF "parameters" \in DOMAIN r
       THEN /\ preview' = <<[params |-> SynthParams(r), name |-> r.name]>>
            /\ UNCHANGED error
       ELSE /\ error' = <<"The Quant model failed to calibrate.">>
            /\ UNCHANGED preview
  /\ loading' = FALSE
  /\ scenarioCall' = FALSE
  /\ UNCHANGED <<past, params, future, appResult, insights, isGenerating, timers,
                 insightCalls, inputs>>
  /\ UNCHANGED <<clock, uniforms, engineVars>>

\* getEconomicScenario throws: the catch and the finally of startCalibration
ScenarioFails ==
  /\ pc = "idle"
  /\ scenarioCall
  /\ \E msg \in {"The AI model is currently experiencing high demand (Proxy Error).",
                 "The Quant model failed to calibrate."} : error' = <<msg>>
  /\ loading' = FALSE
  /\ scenarioCall' = FALSE
  /\ UNCHANGED <<past, params, future, appResult, insights, isGenerating, timers,
                 insightCalls, preview, inputs>>
  /\ UNCHANGED <<clock, uniforms, engineVars>>

\* applyScenario: handleScenarioApplied(preview.params), which calls
\* generateData(newParams) up to its setTimeout, and setPreview(null)
ApplyScenario ==
  /\ pc = "idle"
  /\ User("apply")
  /\ Taken
  /\ preview # <<>>
  /\ HistoryTo(handleScenarioApplied(History, preview[1].params))
  /\ isGenerating' = TRUE
  /\ insights' = <<>>
  /\ timers' = Append(timers, preview[1].params)
  /\ preview' = <<>>
  /\ UNCHANGED <<appResult, insightCalls, loading, error, scenarioCall>>
  /\ UNCHANGED <<clock, uniforms, engineVars>>

\* the Discard button: setPreview(null)
DiscardPreview ==
  /\ pc = "idle"
  /\ User("discard")
  /\ Taken
  /\ preview # <<>>
  /\ preview' = <<>>
  /\ UNCHANGED <<past, params, future, appResult, insights, isGenerating, timers,
                 insightCalls, loading, error, scenarioCall>>
  /\ UNCHANGED <<clock, uniforms, engineVars>>

\* the callback of setTimeout in generateData: the call of
\* generateSynthesizedData(targetParams)
TimerFires ==
  /\ pc = "idle"
  /\ timers # <<>>
  /\ Setup(Head(timers))
  /\ timers' = Tail(timers)
  /\ UNCHANGED <<past, params, future, appResult, insights, isGenerating, insightCalls,
                 loading, error, preview, scenarioCall, inputs>>
  /\ UNCHANGED <<clock, uniforms>>

\* the callback after the return of generateSynthesizedData: setResult and
\* the call of getAnalysisInsights(summaryStr); reading the value of the
\* last point of an empty path throws, into the catch and the finally
SetResult ==
  /\ pc = "done"
  /\ pc' = "idle"
  /\ appResult' = result
  /\ IF result[1].data = <<>>
     THEN isGenerating' = FALSE /\ UNCHANGED insightCalls
     ELSE insightCalls' = Append(insightCalls, SummaryStr(result[1]))
          /\ UNCHANGED isGenerating
  /\ UNCHANGED <<past, params, future, insights, timers, loading, error, preview,
                 scenarioCall, inputs>>
  /\ UNCHANGED <<clock, uniforms, p, pricingVol, effectiveMu, rho, startDate, i,
                 currentSpot, spotLog, marketProxy, data, marketEpsilon,
                 idiosyncraticEpsilon, assetEpsilon, jumpEpsilon, u, v, drawFor,
                 pricerArgs, result>>

\* a call of getAnalysisInsights returns the text of the answer to its
\* resultJson, or its fallback text after an error: setInsights and, in
\* the finally, setIsGenerating(false)
InsightsReturn ==
  /\ pc = "idle"
  /\ \E k \in 1..Len(insightCalls) :
       /\ insightCalls' = SubSeq(insightCalls, 1, k - 1)
                          \o SubSeq(insightCalls, k + 1, Len(insightCalls))
       /\ \/ insights' = <<[text |-> "response.text", resultJson |-> <<insightCalls[k]>>]>>
          \/ insights' = <<[text |-> "Insights unavailable at this time due to high service demand.",
                            resultJson |-> <<>>]>>
  /\ isGenerating' = FALSE
  /\ UNCHANGED <<past, params, future, appResult, timers, loading, error, preview,
                 scenarioCall, inputs>>
  /\ UNCHANGED <<clock, uniforms, engineVars>>

\* the App after its first render, the effect has called generateData(),
\* before a user who makes the calls of script
Mounted(script) ==
  /\ clock = NoonUTC
  /\ uniforms = {0, 5000}
  /\ pc = "idle"
  /\ NoCall
  /\ pricerArgs = <<>>
  /\ result = <<>>
  /\ past = <<>>
  /\ params = INITIAL_PARAMS
  /\ future = <<>>
  /\ appResult = <<>>
  /\ insights = <<>>
  /\ isGenerating = TRUE
  /\ timers = <<INITIAL_PARAMS>>
  /\ insightCalls = <<>>
  /\ loading = FALSE
  /\ error = <<>>
  /\ preview = <<>>
  /\ scenarioCall = FALSE
  /\ inputs = script

InitApp == Mounted(<<Anything>>)

NextScenario ==
  \/ StartCalibration \/ ScenarioReturns \/ ScenarioFails \/ ApplyScenario
  \/ DiscardPreview \/ TimerFires \/ SetResult \/ InsightsReturn
  \/ PushPoint \/ Return \/ DrawU \/ DrawV \/ Advance \/ Jump

SpecScenario == InitApp /\ [][NextScenario]_vars

(***************************************************************************)
(* The Time Horizon field and the Generate button.                         *)
(***************************************************************************)

\* parseInt(e.target.value) of the Time Horizon field: of the emptied
\* field, of "1" and of "-3"
Horizons == {NaN, 1, -3}

\* the user edits the Time Horizon field, or selects the jump model, sets
\* its intensity and a horizon of one step, and clicks Generate
InitGenerate ==
  \/ \E h \in Horizons : Mounted(<<Change([timeHorizon |-> h]), Input("generate")>>)
  \/ Mounted(<<Change([modelType |-> "EQUITY_MERTON_JUMP"]),
               Change([lambda |-> 200 * SCALE]), Change([timeHorizon |-> 1]),
               Input("generate")>>)

NextGenerate ==
  \/ HandleParamChange \/ Generate \/ TimerFires \/ SetResult \/ InsightsReturn
  \/ PushPoint \/ Return \/ DrawU \/ DrawV \/ Advance \/ Jump

SpecGenerate == InitGenerate /\ [][NextGenerate]_vars

\* C23: the result the App stores has at least one point, and parameters
\* the validation reports no error for have a number of steps that is a
\* number >= 1.
C23_ResultHasPoints ==
  /\ appResult # <<>> => Len(appResult[1].data) >= 1
  /\ ~hasErrors(params) => params.timeHorizon # NaN /\ params.timeHorizon >= 1

(***************************************************************************)
(* The history: parameter changes, scenarios, undo and redo, before any    *)
(* timer fires.                                                            *)
(***************************************************************************)

\* the number of calls of the users who make every call in every order
MaxInputs == 4

\* the newParams of the drift field, at two values
Controls == {[mu |-> 900], [mu |-> 800]}

Events ==
  { Change(c) : c \in Controls }
  \cup { Input(e) : e \in {"undo", "redo", "calibrate", "apply"} }

\* n changes of the drift, each to the other value
Toggles(n) == [k \in 1..n |-> Change([mu |-> IF k % 2 = 1 THEN 900 ELSE 800])]

\* the users: every sequence of at most MaxInputs calls, and three who
\* change the drift more than MAX_HISTORY times
Scripts ==
  UNION { [1..n -> Events] : n \in 0..MaxInputs }
  \cup { Toggles(MAX_HISTORY + 1) \o <<Input("undo"), Input("undo"), Input("redo"),
                                       Change([mu |-> 900])>>,
         <<Input("calibrate")>> \o Toggles(MAX_HISTORY + 1) \o <<Input("apply")>>,
         <<Input("calibrate")>> \o Toggles(MAX_HISTORY) \o
           <<Input("undo"), Input("undo"), Input("apply"), Input("undo"), Input("redo")>> }

InitHistory == \E script \in Scripts : Mounted(script)

NextHistory ==
  \/ HandleParamChange \/ Undo \/ Redo
  \/ StartCalibration \/ ScenarioReturns \/ ScenarioFails \/ ApplyScenario

SpecHistory == InitHistory /\ [][NextHistory]_vars

\* C24: from every history, after a change that alters params an undo
\* gives params the value from before the change, and a redo after that
\* undo gives past, params and future the values from before the undo;
\* undo on an empty past and redo on an empty future change nothing.
C24_UndoRedoRoundTrip ==
  /\ \A c \in Controls :
       LET changed == handleParamChange(History, c)
       IN changed.params # params =>
            /\ undo(changed).params = params
            /\ redo(undo(changed)) = changed
  /\ past = <<>> => undo(History) = History
  /\ future = <<>> => redo(History) = History

\* a change was undone from a history of several entries: redo brings the
\* changed value back
C24_Witness ==
  /\ Len(past) >= 2
  /\ past[1] # past[Len(past)]
  /\ Len(future) = 1
  /\ redo(History).params = future[1]
  /\ redo(History).params # params
  /\ undo(redo(History)) = History

\* C25: past holds at most MAX_HISTORY entries, and past and future
\* together hold at most MAX_HISTORY.
C25_HistoryCapped ==
  /\ Len(past) <= MAX_HISTORY
  /\ Len(past) + Len(future) <= MAX_HISTORY

\* past is full, its oldest entry is no longer the initial parameters, and
\* an entry waits in future
C25_Witness ==
  /\ Len(past) + Len(future) = MAX_HISTORY
  /\ future # <<>>
  /\ past[1] # INITIAL_PARAMS

\* C26: a call of onParamChange whose merged parameters differ from params,
\* and every scenario application, appends params to past (after the last
\* MAX_HISTORY - 1 of its entries), sets params and empties future; a call
\* of onParamChange whose merged parameters equal params leaves the three
\* alone.
C26_ChangeFrame ==
  [][inputs # <<>> /\ inputs' # inputs =>
       LET e == Head(inputs)
           pushed == /\ past' = Append(LastN(past, MAX_HISTORY - 1), params)
                     /\ future' = <<>>
       IN /\ e.do = "change" /\ Merge(params, e.with) # params =>
               pushed /\ params' = Merge(params, e.with)
          /\ e.do = "change" /\ Merge(params, e.with) = params =>
               UNCHANGED <<past, params, future>>
          /\ e.do = "apply" => pushed /\ params' = preview[1].params]_vars

\* a scenario was applied over a change
C26_Witness ==
  /\ Len(timers) = 2
  /\ Len(past) >= 2
  /\ params = timers[2]
  /\ past[Len(past)].mu # INITIAL_PARAMS.mu
  /\ future = <<>>
  /\ preview = <<>>

(***************************************************************************)
(* Requests of the App that overlap.                                       *)
(***************************************************************************)

\* a call of generateData has not reached its finally
InFlight == timers # <<>> \/ pc # "idle" \/ insightCalls # <<>>

\* C27: once every request has completed, insights that are the answer to
\* a resultJson are the answer to the resultJson of the result on display.
C27_InsightsOfResult ==
  ~InFlight /\ appResult # <<>> /\ insights # <<>> /\ insights[1].resultJson # <<>> =>
    /\ appResult[1].data # <<>>
    /\ insights[1].resultJson = <<SummaryStr(appResult[1])>>

\* C28: isGenerating is true exactly while a call of generateData has not
\* reached its finally.
C28_GeneratingWhileInFlight == isGenerating <=> InFlight

(***************************************************************************)
(* The scenario assistant.                                                 *)
(***************************************************************************)

\* C30: at most one of loading, a preview and an error is present; the end
\* of a calibration leaves loading false and exactly one of preview and
\* error; and a call of onScenarioApplied passes the parameters of the
\* preview present and leaves no preview.
C30_AssistantStates ==
  /\ [](/\ ~(loading /\ preview # <<>>)
        /\ ~(loading /\ error # <<>>)
        /\ ~(preview # <<>> /\ error # <<>>)
        /\ loading <=> scenarioCall)
  /\ [][/\ scenarioCall /\ ~scenarioCall' =>
             ~loading' /\ ((preview' # <<>>) <=> (error' = <<>>))
        /\ Len(timers') > Len(timers) =>
             /\ preview # <<>>
             /\ preview' = <<>>
             /\ params' = preview[1].params
             /\ timers'[Len(timers')] = preview[1].params]_vars

\* a calibration gave a preview and the preview was applied
C30_Witness ==
  /\ error = <<>>
  /\ preview = <<>>
  /\ ~loading
  /\ past # <<>>
  /\ params # INITIAL_PARAMS
  /\ Len(timers) >= 1
  /\ timers[Len(timers)] = params

ModelTypes ==
  {"EQUITY_GBM", "EQUITY_MERTON_JUMP", "INTEREST_RATE_VASICEK", "INTEREST_RATE_CIR",
   "MACRO_INFLATION", "OU_PROCESS"}

\* C8: generateSynthesizedData is only called with a model type that
\* exists, a volatility >= 0, an initial value > 0, a step size > 0 and at
\* least one step.
C8_ScenarioClamped ==
  pc # "idle" =>
    /\ p.modelType \in ModelTypes
    /\ sigma(p) >= 0
    /\ p.initialValue > 0
    /\ p.dt > 0
    /\ p.timeHorizon >= 1

====
